---------------------------- MODULE Spec2Model ----------------------------
(***************************************************************************)
(* Model of the function plotter: lexer (lexer.c), parser (parser.c),      *)
(* evaluator (evaluator.c), limits (limits.c) and PostScript renderer      *)
(* (draw_utils.c).                                                         *)
(*                                                                         *)
(* Texts are sequences of one-character strings.  The C end-of-string      *)
(* sentinel '\0' is the value NUL.  A call that ends in error_exit()/exit()*)
(* is a result whose err field is not NoErr; every caller stops there, as  *)
(* the process does.                                                       *)
(***************************************************************************)
EXTENDS Integers, Sequences, FiniteSets, TLC

VARIABLES pc,        \* position of the run in the pipeline
          text,      \* the expression argument (argv[1])
          limstr,    \* the limits argument (argv[3]), <<>> when absent
          lexer,     \* Lexer struct: [pos, current_char]
          ast,       \* root Node returned by parse_expr, NULL before
          last,      \* token that ended the operator loop of the top-level parse_expr
          limits,    \* Limits struct
          loop,      \* locals of draw_function: x, first_point, out_of_range
          y,         \* the value the last evaluate() call returned
          out,       \* what the output file has received
          status,    \* exit status of the process, RUNNING until it ends
          diag       \* the diagnostic the process ended with, NoErr otherwise

vars == <<pc, text, limstr, lexer, ast, last, limits, loop, y, out, status, diag>>

NUL == "NUL"
NULL == [type |-> "NULL"]
NoErr == "none"

(***************************************************************************)
(* Bounds of the model.                                                    *)
(***************************************************************************)
MaxToks == 4

(***************************************************************************)
(* <ctype.h> classes, restricted to the characters the model uses.         *)
(***************************************************************************)
Digits == <<"0", "1", "2", "3", "4", "5", "6", "7", "8", "9">>

isdigit(c) == \E i \in 1..10 : Digits[i] = c

DigitVal(c) == (CHOOSE i \in 1..10 : Digits[i] = c) - 1

isalpha(c) ==
    c \in {"a", "b", "c", "d", "e", "f", "g", "h", "i", "j", "k", "l", "m", "n", "o", "p", "q",
           "r", "s", "t", "u", "v", "w", "x", "y", "z",
           "A", "B", "C", "D", "E", "F", "G", "H", "I", "J", "K", "L", "M", "N", "O", "P", "Q",
           "R", "S", "T", "U", "V", "W", "X", "Y", "Z"}

isspace(c) == c \in {" ", "\t", "\n"}

\* text[i] for a C index i; the terminating '\0' sits at index strlen(text)
CharAt(t, i) == IF i >= 0 /\ i < Len(t) THEN t[i + 1] ELSE NUL

(***************************************************************************)
(* lexer.c                                                                 *)
(***************************************************************************)
ERROR_FUNCTION == 2

\* the error messages of lexer.c and parser.c
ErrBrackets == "wrong usage of brackets"
ErrTwoDots == "wrong function input"
ErrExp == "wrong exp usage"
ErrExpDot == "exponent cannot be a floating point number"
ErrExpLetter == "exponent cannot contain letters"
ErrExpParen == "exponent cannot contain '('"
ErrIdLong == "Identifier too long"
ErrIdUnknown == "unknown identifier"
ErrUnknownChar == "unknown character"
ErrUnknownOperator == "Unknown operator"
ErrExpectedLParen == "expected '(' after function"
ErrExpectedRParen == "expected closing parenthesis"
ErrUnexpected == "unexpected token"

LexErrors == {ErrBrackets, ErrTwoDots, ErrExp, ErrExpDot, ErrExpLetter, ErrExpParen,
              ErrIdLong, ErrIdUnknown, ErrUnknownChar, ErrUnknownOperator}

ParseErrors == {ErrExpectedLParen, ErrExpectedRParen, ErrUnexpected}

MAX_STACK_SIZE == 100

\* the stack top that the for loop of are_brackets_balanced holds when it
\* enters the iteration at index i, no iteration before it having executed
\* "return 0": top starts at -1, every '(' before i pushed (++top) and every
\* ')' before i popped (top--)
TopBefore(t, i) ==
    Cardinality({j \in 0..(i - 1) : CharAt(t, j) = "("})
        - Cardinality({j \in 0..(i - 1) : CharAt(t, j) = ")"}) - 1

\* the iteration at index i executes "return 0": a '(' on a full stack or a
\* ')' on an empty one
ReturnsAt(t, i) ==
    \/ CharAt(t, i) = "(" /\ TopBefore(t, i) = MAX_STACK_SIZE - 1
    \/ CharAt(t, i) = ")" /\ TopBefore(t, i) = -1

\* the loop runs to the end of the text unless an iteration returns 0 (up to
\* the first such iteration TopBefore is the loop's top); then "return top == -1"
are_brackets_balanced(t) ==
    /\ \A i \in 0..(Len(t) - 1) : ~ReturnsAt(t, i)
    /\ TopBefore(t, Len(t)) = -1

\* lexer state after initialize_lexer succeeded
NewLexer(t) == [pos |-> 0, current_char |-> CharAt(t, 0)]

advance(t, lx) ==
    [pos |-> lx.pos + 1,
     current_char |-> IF lx.pos + 1 < Len(t) THEN t[lx.pos + 2] ELSE NUL]

RECURSIVE skip_whitespace(_, _)
skip_whitespace(t, lx) ==
    IF lx.current_char # NUL /\ isspace(lx.current_char)
    THEN skip_whitespace(t, advance(t, lx))
    ELSE lx

\* Tokens.  num is the literal's value m/d * 10^x (x is the decimal exponent
\* applied by pow(10, exponent_sign * exponent)); func holds the identifier.
NoNum == [m |-> 0, d |-> 1, x |-> 0]

Tok(ty) == [type |-> ty, num |-> NoNum, func |-> <<>>]

NumTok(m, d, x) == [type |-> "NUM", num |-> [m |-> m, d |-> d, x |-> x], func |-> <<>>]

NameTok(ty, name) == [type |-> ty, num |-> NoNum, func |-> name]

LexResult(lx, tok, err) == [lx |-> lx, tok |-> tok, err |-> err]

RECURSIVE NumberDigits(_, _, _, _, _)
\* first while loop of process_number: m/d is token.num, d = 1/fraction
NumberDigits(t, lx, m, d, is_fraction) ==
    IF lx.current_char = "." THEN
        IF is_fraction THEN [lx |-> lx, m |-> m, d |-> d, err |-> ErrTwoDots]
        ELSE NumberDigits(t, advance(t, lx), m, d, TRUE)
    ELSE IF isdigit(lx.current_char) THEN
        IF is_fraction
        THEN NumberDigits(t, advance(t, lx), m * 10 + DigitVal(lx.current_char), d * 10, TRUE)
        ELSE NumberDigits(t, advance(t, lx), m * 10 + DigitVal(lx.current_char), d, FALSE)
    ELSE [lx |-> lx, m |-> m, d |-> d, err |-> NoErr]

RECURSIVE ExponentDigits(_, _, _)
\* while loop over the exponent digits
ExponentDigits(t, lx, exponent) ==
    IF isdigit(lx.current_char)
    THEN ExponentDigits(t, advance(t, lx), exponent * 10 + DigitVal(lx.current_char))
    ELSE [lx |-> lx, exponent |-> exponent]

\* a process_number that accepts an exponent marker without digits
ProcessNumberBareExponent(t, lx0) ==
    LET mant == NumberDigits(t, lx0, 0, 1, FALSE) IN
    IF mant.err # NoErr THEN LexResult(mant.lx, Tok("NUM"), mant.err)
    ELSE IF mant.lx.current_char \in {"E", "e"} THEN
        LET lx1 == advance(t, mant.lx)
            signed == lx1.current_char \in {"+", "-"}
            exponent_sign == IF lx1.current_char = "-" THEN -1 ELSE 1
            lx2 == IF signed THEN advance(t, lx1) ELSE lx1
            ex == ExponentDigits(t, lx2, 0)
        IN  IF ex.lx.current_char = "." THEN LexResult(ex.lx, Tok("NUM"), ErrExpDot)
            ELSE IF isalpha(ex.lx.current_char)
                 THEN LexResult(ex.lx, Tok("NUM"), ErrExpLetter)
            ELSE IF ex.lx.current_char = "("
                 THEN LexResult(ex.lx, Tok("NUM"), ErrExpParen)
            ELSE LexResult(ex.lx, NumTok(mant.m, mant.d, exponent_sign * ex.exponent), NoErr)
    ELSE LexResult(mant.lx, NumTok(mant.m, mant.d, 0), NoErr)

process_number(t, lx0) ==
    LET mant == NumberDigits(t, lx0, 0, 1, FALSE) IN
    IF mant.err # NoErr THEN LexResult(mant.lx, Tok("NUM"), mant.err)
    ELSE IF mant.lx.current_char \in {"E", "e"} THEN
        LET lx1 == advance(t, mant.lx)
            signed == lx1.current_char \in {"+", "-"}
            exponent_sign == IF lx1.current_char = "-" THEN -1 ELSE 1
            lx2 == IF signed THEN advance(t, lx1) ELSE lx1
        IN  IF ~isdigit(lx2.current_char) THEN LexResult(lx2, Tok("NUM"), ErrExp)
            ELSE LET ex == ExponentDigits(t, lx2, 0) IN
                 IF ex.lx.current_char = "." THEN LexResult(ex.lx, Tok("NUM"), ErrExpDot)
                 ELSE IF isalpha(ex.lx.current_char)
                      THEN LexResult(ex.lx, Tok("NUM"), ErrExpLetter)
                 ELSE IF ex.lx.current_char = "("
                      THEN LexResult(ex.lx, Tok("NUM"), ErrExpParen)
                 ELSE LexResult(ex.lx, NumTok(mant.m, mant.d, exponent_sign * ex.exponent),
                                NoErr)
    ELSE LexResult(mant.lx, NumTok(mant.m, mant.d, 0), NoErr)

RECURSIVE IdentifierChars(_, _, _)
\* while loop of process_identifier; at most 63 characters are stored
IdentifierChars(t, lx, name) ==
    IF isalpha(lx.current_char)
    THEN IdentifierChars(t, advance(t, lx),
                         IF Len(name) < 63 THEN Append(name, lx.current_char) ELSE name)
    ELSE [lx |-> lx, name |-> name]

FunctionNames ==
    {<<"c", "o", "s">>, <<"s", "i", "n">>, <<"t", "a", "n">>, <<"a", "b", "s">>,
     <<"l", "n">>, <<"l", "o", "g">>, <<"a", "s", "i", "n">>, <<"a", "c", "o", "s">>,
     <<"a", "t", "a", "n">>, <<"s", "i", "n", "h">>, <<"c", "o", "s", "h">>,
     <<"t", "a", "n", "h">>, <<"e", "x", "p">>}

\* a process_identifier that takes every single letter for the variable
ProcessIdentifierAnyLetter(t, lx0) ==
    LET id == IdentifierChars(t, lx0, <<>>) IN
    IF Len(id.name) >= 10 THEN LexResult(id.lx, Tok("ID"), ErrIdLong)
    ELSE IF Len(id.name) # 1 THEN
        IF id.name \in FunctionNames
        THEN LexResult(id.lx, NameTok("FUNC", id.name), NoErr)
        ELSE LexResult(id.lx, Tok("ID"), ErrIdUnknown)
    ELSE LexResult(id.lx, NameTok("ID", id.name), NoErr)

process_identifier(t, lx0) ==
    LET id == IdentifierChars(t, lx0, <<>>) IN
    IF Len(id.name) >= 10 THEN LexResult(id.lx, Tok("ID"), ErrIdLong)
    ELSE IF id.name # <<"x">> THEN
        IF id.name \in FunctionNames
        THEN LexResult(id.lx, NameTok("FUNC", id.name), NoErr)
        ELSE LexResult(id.lx, Tok("ID"), ErrIdUnknown)
    ELSE LexResult(id.lx, NameTok("ID", id.name), NoErr)

is_operator(c) == c \in {"+", "-", "*", "/", "^"}

\* a process_operator that advances over two characters
ProcessOperatorTwo(t, lx) ==
    LET operator == lx.current_char IN
    CASE operator = "+" -> LexResult(advance(t, advance(t, lx)), Tok("PLUS"), NoErr)
      [] operator = "-" -> LexResult(advance(t, advance(t, lx)), Tok("MINUS"), NoErr)
      [] operator = "*" -> LexResult(advance(t, advance(t, lx)), Tok("MUL"), NoErr)
      [] operator = "/" -> LexResult(advance(t, advance(t, lx)), Tok("DIV"), NoErr)
      [] operator = "^" -> LexResult(advance(t, advance(t, lx)), Tok("POW"), NoErr)
      [] OTHER -> LexResult(advance(t, lx), Tok("EOF"), ErrUnknownOperator)

process_operator(t, lx) ==
    LET operator == lx.current_char IN
    CASE operator = "+" -> LexResult(advance(t, lx), Tok("PLUS"), NoErr)
      [] operator = "-" -> LexResult(advance(t, lx), Tok("MINUS"), NoErr)
      [] operator = "*" -> LexResult(advance(t, lx), Tok("MUL"), NoErr)
      [] operator = "/" -> LexResult(advance(t, lx), Tok("DIV"), NoErr)
      [] operator = "^" -> LexResult(advance(t, lx), Tok("POW"), NoErr)
      [] OTHER -> LexResult(advance(t, lx), Tok("EOF"), ErrUnknownOperator)

is_bracket(c) == c \in {"(", ")"}

process_bracket(t, lx) ==
    IF lx.current_char = "("
    THEN LexResult(advance(t, lx), Tok("LPAREN"), NoErr)
    ELSE LexResult(advance(t, lx), Tok("RPAREN"), NoErr)

RECURSIVE get_next_token(_, _)
get_next_token(t, lx) ==
    IF lx.current_char = NUL THEN LexResult(lx, Tok("EOF"), NoErr)
    ELSE IF isspace(lx.current_char) THEN get_next_token(t, skip_whitespace(t, lx))
    ELSE IF isdigit(lx.current_char) \/ lx.current_char = "." THEN process_number(t, lx)
    ELSE IF isalpha(lx.current_char) THEN process_identifier(t, lx)
    ELSE IF is_operator(lx.current_char) THEN process_operator(t, lx)
    ELSE IF is_bracket(lx.current_char) THEN process_bracket(t, lx)
    ELSE LexResult(lx, Tok("EOF"), ErrUnknownChar)


(***************************************************************************)
(* parser.c                                                                *)
(***************************************************************************)
NumNode(num) == [type |-> "NODE_NUM", num |-> num]

IdNode == [type |-> "NODE_ID"]

FuncNode(func, arg) == [type |-> "NODE_FUNC", func |-> func, arg |-> arg]

\* an operator node whose operands are stored in each other's place
OpNodeSwapped(op, left, right) == [type |-> "NODE_OP", op |-> op, left |-> right, right |-> left]

OpNode(op, left, right) == [type |-> "NODE_OP", op |-> op, left |-> left, right |-> right]

\* result of a parser function: the node, the lexer state it leaves, the error
\* it exited with, and (for parse_expr) the token that ended its operator loop
ParseResult(node, lx, err, tok) == [node |-> node, lx |-> lx, err |-> err, tok |-> tok]

ParseFail(lx, err) == ParseResult(NULL, lx, err, Tok("EOF"))

\* a push-back that steps two characters back
PushBackTwo(t, lx) ==
    IF lx.pos <= 1 THEN [pos |-> -1, current_char |-> "UB"]
    ELSE [pos |-> lx.pos - 2, current_char |-> CharAt(t, lx.pos - 2)]

\* lexer->pos--; lexer->current_char = lexer->text[lexer->pos];
\* pos is a size_t: at pos = 0 the decrement wraps and the read is out of bounds
PushBack(t, lx) ==
    IF lx.pos = 0 THEN [pos |-> -1, current_char |-> "UB"]
    ELSE [pos |-> lx.pos - 1, current_char |-> CharAt(t, lx.pos - 1)]

IsBinaryOpToken(tok) == tok.type \in {"PLUS", "MINUS", "MUL", "DIV", "POW"}

OpChar(tok) ==
    IF tok.type = "MUL" THEN "*"
    ELSE IF tok.type = "DIV" THEN "/"
    ELSE IF tok.type = "POW" THEN "^"
    ELSE IF tok.type = "PLUS" THEN "+"
    ELSE "-"

RECURSIVE ParseRightToLeft(_, _, _, _, _)
\* a parser whose operator loop takes the whole rest of the expression as
\* the right operand, which nests chains to the right
ParseRightToLeft(fn, t, lx, node, r) ==
    IF fn = "parse_expr" THEN
        LET first == ParseRightToLeft("parse_factor", t, lx, NULL, NULL) IN
        IF first.err # NoErr THEN ParseFail(first.lx, first.err)
        ELSE ParseRightToLeft("loop", t, first.lx, first.node, get_next_token(t, first.lx))
    ELSE IF fn = "loop" THEN
        IF r.err # NoErr THEN ParseFail(r.lx, r.err)
        ELSE IF IsBinaryOpToken(r.tok) THEN
            LET right == ParseRightToLeft("parse_expr", t, r.lx, NULL, NULL) IN
            IF right.err # NoErr THEN ParseFail(right.lx, right.err)
            ELSE ParseResult(OpNode(OpChar(r.tok), node, right.node), right.lx, NoErr,
                             right.tok)
        ELSE ParseResult(node, PushBack(t, r.lx), NoErr, r.tok)
    ELSE IF fn = "paren" THEN
        LET inner == ParseRightToLeft("parse_expr", t, lx, NULL, NULL) IN
        IF inner.err # NoErr THEN ParseFail(inner.lx, inner.err)
        ELSE LET close == get_next_token(t, inner.lx) IN
             IF close.err # NoErr THEN ParseFail(close.lx, close.err)
             ELSE IF close.tok.type # "RPAREN" THEN ParseFail(close.lx, ErrExpectedRParen)
             ELSE ParseResult(IF node = <<>> THEN inner.node ELSE FuncNode(node, inner.node),
                              close.lx, NoErr, close.tok)
    ELSE
        LET f == get_next_token(t, lx) IN
        IF f.err # NoErr THEN ParseFail(f.lx, f.err)
        ELSE IF f.tok.type = "MINUS" THEN
            LET right == ParseRightToLeft("parse_factor", t, f.lx, NULL, NULL) IN
            IF right.err # NoErr THEN ParseFail(right.lx, right.err)
            ELSE ParseResult(OpNode("-", NULL, right.node), right.lx, NoErr, f.tok)
        ELSE IF f.tok.type = "NUM" THEN ParseResult(NumNode(f.tok.num), f.lx, NoErr, f.tok)
        ELSE IF f.tok.type = "ID" THEN ParseResult(IdNode, f.lx, NoErr, f.tok)
        ELSE IF f.tok.type = "FUNC" THEN
            LET open == get_next_token(t, f.lx) IN
            IF open.err # NoErr THEN ParseFail(open.lx, open.err)
            ELSE IF open.tok.type # "LPAREN" THEN ParseFail(open.lx, ErrExpectedLParen)
            ELSE ParseRightToLeft("paren", t, open.lx, f.tok.func, NULL)
        ELSE IF f.tok.type = "LPAREN" THEN ParseRightToLeft("paren", t, f.lx, <<>>, NULL)
        ELSE ParseFail(f.lx, ErrUnexpected)

RECURSIVE ParseMinusOverExpr(_, _, _, _, _)
\* a parser whose unary minus takes a whole expression as its operand
ParseMinusOverExpr(fn, t, lx, node, r) ==
    IF fn = "parse_expr" THEN
        LET first == ParseMinusOverExpr("parse_factor", t, lx, NULL, NULL) IN
        IF first.err # NoErr THEN ParseFail(first.lx, first.err)
        ELSE ParseMinusOverExpr("loop", t, first.lx, first.node, get_next_token(t, first.lx))
    ELSE IF fn = "loop" THEN
        IF r.err # NoErr THEN ParseFail(r.lx, r.err)
        ELSE IF IsBinaryOpToken(r.tok) THEN
            LET right == ParseMinusOverExpr("parse_factor", t, r.lx, NULL, NULL) IN
            IF right.err # NoErr THEN ParseFail(right.lx, right.err)
            ELSE ParseMinusOverExpr("loop", t, right.lx, OpNode(OpChar(r.tok), node, right.node),
                       get_next_token(t, right.lx))
        ELSE ParseResult(node, PushBack(t, r.lx), NoErr, r.tok)
    ELSE IF fn = "paren" THEN
        LET inner == ParseMinusOverExpr("parse_expr", t, lx, NULL, NULL) IN
        IF inner.err # NoErr THEN ParseFail(inner.lx, inner.err)
        ELSE LET close == get_next_token(t, inner.lx) IN
             IF close.err # NoErr THEN ParseFail(close.lx, close.err)
             ELSE IF close.tok.type # "RPAREN" THEN ParseFail(close.lx, ErrExpectedRParen)
             ELSE ParseResult(IF node = <<>> THEN inner.node ELSE FuncNode(node, inner.node),
                              close.lx, NoErr, close.tok)
    ELSE
        LET f == get_next_token(t, lx) IN
        IF f.err # NoErr THEN ParseFail(f.lx, f.err)
        ELSE IF f.tok.type = "MINUS" THEN
            LET right == ParseMinusOverExpr("parse_expr", t, f.lx, NULL, NULL) IN
            IF right.err # NoErr THEN ParseFail(right.lx, right.err)
            ELSE ParseResult(OpNode("-", NULL, right.node), right.lx, NoErr, f.tok)
        ELSE IF f.tok.type = "NUM" THEN ParseResult(NumNode(f.tok.num), f.lx, NoErr, f.tok)
        ELSE IF f.tok.type = "ID" THEN ParseResult(IdNode, f.lx, NoErr, f.tok)
        ELSE IF f.tok.type = "FUNC" THEN
            LET open == get_next_token(t, f.lx) IN
            IF open.err # NoErr THEN ParseFail(open.lx, open.err)
            ELSE IF open.tok.type # "LPAREN" THEN ParseFail(open.lx, ErrExpectedLParen)
            ELSE ParseMinusOverExpr("paren", t, open.lx, f.tok.func, NULL)
        ELSE IF f.tok.type = "LPAREN" THEN ParseMinusOverExpr("paren", t, f.lx, <<>>, NULL)
        ELSE ParseFail(f.lx, ErrUnexpected)

RECURSIVE Parse(_, _, _, _, _)
\* The mutually recursive functions of parser.c as one recursive operator,
\* selected by fn:
\*   "parse_expr"    parse_expr(lexer) with the lexer at lx
\*   "loop"          the while loop of parse_expr: node is the tree built so
\*                   far, r the result of the get_next_token call that
\*                   produced the loop's current token
\*   "parse_factor"  parse_factor(lexer) with the lexer at lx
\*   "paren"         the common tail of the function-call and parenthesis
\*                   branches of parse_factor: parse_expr, then expect ')';
\*                   node is the function name, <<>> in the parenthesis branch
Parse(fn, t, lx, node, r) ==
    IF fn = "parse_expr" THEN
        LET first == Parse("parse_factor", t, lx, NULL, NULL) IN
        IF first.err # NoErr THEN ParseFail(first.lx, first.err)
        ELSE Parse("loop", t, first.lx, first.node, get_next_token(t, first.lx))
    ELSE IF fn = "loop" THEN
        IF r.err # NoErr THEN ParseFail(r.lx, r.err)
        ELSE IF IsBinaryOpToken(r.tok) THEN
            LET right == Parse("parse_factor", t, r.lx, NULL, NULL) IN
            IF right.err # NoErr THEN ParseFail(right.lx, right.err)
            ELSE Parse("loop", t, right.lx, OpNode(OpChar(r.tok), node, right.node),
                       get_next_token(t, right.lx))
        ELSE ParseResult(node, PushBack(t, r.lx), NoErr, r.tok)
    ELSE IF fn = "paren" THEN
        LET inner == Parse("parse_expr", t, lx, NULL, NULL) IN
        IF inner.err # NoErr THEN ParseFail(inner.lx, inner.err)
        ELSE LET close == get_next_token(t, inner.lx) IN
             IF close.err # NoErr THEN ParseFail(close.lx, close.err)
             ELSE IF close.tok.type # "RPAREN" THEN ParseFail(close.lx, ErrExpectedRParen)
             ELSE ParseResult(IF node = <<>> THEN inner.node ELSE FuncNode(node, inner.node),
                              close.lx, NoErr, close.tok)
    ELSE
        LET f == get_next_token(t, lx) IN
        IF f.err # NoErr THEN ParseFail(f.lx, f.err)
        ELSE IF f.tok.type = "MINUS" THEN
            LET right == Parse("parse_factor", t, f.lx, NULL, NULL) IN
            IF right.err # NoErr THEN ParseFail(right.lx, right.err)
            ELSE ParseResult(OpNode("-", NULL, right.node), right.lx, NoErr, f.tok)
        ELSE IF f.tok.type = "NUM" THEN ParseResult(NumNode(f.tok.num), f.lx, NoErr, f.tok)
        ELSE IF f.tok.type = "ID" THEN ParseResult(IdNode, f.lx, NoErr, f.tok)
        ELSE IF f.tok.type = "FUNC" THEN
            LET open == get_next_token(t, f.lx) IN
            IF open.err # NoErr THEN ParseFail(open.lx, open.err)
            ELSE IF open.tok.type # "LPAREN" THEN ParseFail(open.lx, ErrExpectedLParen)
            ELSE Parse("paren", t, open.lx, f.tok.func, NULL)
        ELSE IF f.tok.type = "LPAREN" THEN Parse("paren", t, f.lx, <<>>, NULL)
        ELSE ParseFail(f.lx, ErrUnexpected)

parse_expr(t, lx) == Parse("parse_expr", t, lx, NULL, NULL)

parse_factor(t, lx) == Parse("parse_factor", t, lx, NULL, NULL)


(***************************************************************************)
(* double values.  A finite value is the rational n/d together with the    *)
(* sign e of its rounding deviation from n/d (0 when the double is n/d     *)
(* itself): the loop variable of draw_function accumulates such a          *)
(* deviation, and it decides comparisons at n/d = 0 and at the window      *)
(* bounds.  "big" is a finite value beyond every window bound of the model *)
(* (the quotient by a deviation), "inf" and "nan" are the IEEE-754 values. *)
(* Arithmetic follows IEEE-754 on the special values and exact rational    *)
(* arithmetic on the finite ones; it is first-order in the deviation.      *)
(***************************************************************************)
Sgn(n) == IF n > 0 THEN 1 ELSE IF n < 0 THEN 0 - 1 ELSE 0

Abs(n) == IF n < 0 THEN 0 - n ELSE n

RECURSIVE Gcd(_, _)
Gcd(a, b) == IF b = 0 THEN a ELSE Gcd(b, a % b)

Fin(n, d, e) ==
    LET g == Gcd(Abs(n), Abs(d))
        s == Sgn(d)
    IN  [k |-> "fin", n |-> s * (n \div g), d |-> s * (d \div g), e |-> e]

Rat(n, d) == Fin(n, d, 0)

Big(s) == [k |-> "big", n |-> s, d |-> 1, e |-> 0]

Inf(s) == [k |-> "inf", n |-> s, d |-> 1, e |-> 0]

NaN == [k |-> "nan", n |-> 0, d |-> 1, e |-> 0]

\* the result of an operation this model does not represent
Unknown == [k |-> "unknown", n |-> 0, d |-> 1, e |-> 0]

\* evaluate() did not return: it printed message and called exit(2)
Exited(message) == [k |-> "exit", n |-> 2, d |-> 1, e |-> 0, msg |-> message]

\* evaluate() dereferenced a null pointer: the behaviour is undefined
Undefined == [k |-> "ub", n |-> 0, d |-> 1, e |-> 0]

\* the call did not return a value
Stops(v) == v.k \in {"exit", "ub"}

isnan(v) == v.k = "nan"

\* the deviation of a sum of two deviating terms
Comb(e1, e2) == IF e1 = 0 THEN e2 ELSE IF e2 = 0 \/ e2 = e1 THEN e1 ELSE 0

\* sign of a value: of n/d, else of the deviation
SignOf(v) == IF v.n # 0 THEN Sgn(v.n) ELSE v.e

\* C comparisons a < b, a == b on doubles (false when either is NaN)
Less(a, b) ==
    IF a.k = "nan" \/ b.k = "nan" THEN FALSE
    ELSE IF a.k = "fin" /\ b.k = "fin" THEN
        \/ a.n * b.d < b.n * a.d
        \/ a.n * b.d = b.n * a.d /\ a.e < b.e
    ELSE IF a.k = "fin" THEN b.n > 0
    ELSE IF b.k = "fin" THEN a.n < 0
    ELSE IF a.k = b.k THEN a.n < b.n
    ELSE IF a.k = "inf" THEN a.n < 0
    ELSE b.n > 0

IsZero(v) == v.k = "fin" /\ v.n = 0 /\ v.e = 0

Neg(v) ==
    IF v.k = "fin" THEN Fin(0 - v.n, v.d, 0 - v.e)
    ELSE IF v.k \in {"big", "inf"} THEN [v EXCEPT !.n = 0 - v.n]
    ELSE v

Plus(a, b) ==
    IF a.k = "nan" \/ b.k = "nan" THEN NaN
    ELSE IF a.k = "unknown" \/ b.k = "unknown" THEN Unknown
    ELSE IF a.k = "inf" THEN (IF b.k = "inf" /\ b.n # a.n THEN NaN ELSE a)
    ELSE IF b.k = "inf" THEN b
    ELSE IF a.k = "big" THEN (IF b.k = "big" /\ b.n # a.n THEN Unknown ELSE a)
    ELSE IF b.k = "big" THEN b
    ELSE Fin(a.n * b.d + b.n * a.d, a.d * b.d, Comb(a.e, b.e))

Minus(a, b) == Plus(a, Neg(b))

Times(a, b) ==
    IF a.k = "nan" \/ b.k = "nan" THEN NaN
    ELSE IF a.k = "unknown" \/ b.k = "unknown" THEN Unknown
    ELSE IF a.k = "fin" /\ b.k = "fin" THEN
        Fin(a.n * b.n, a.d * b.d,
            IF a.n = 0 /\ b.n = 0 THEN a.e * b.e
            ELSE Comb(Sgn(a.n) * b.e, Sgn(b.n) * a.e))
    ELSE IF IsZero(a) \/ IsZero(b) THEN
        (IF a.k = "inf" \/ b.k = "inf" THEN NaN ELSE Rat(0, 1))
    ELSE IF a.k = "inf" \/ b.k = "inf" THEN Inf(SignOf(a) * SignOf(b))
    ELSE IF (a.k = "fin" /\ a.n = 0) \/ (b.k = "fin" /\ b.n = 0) THEN Unknown
    ELSE Big(SignOf(a) * SignOf(b))

\* a / b for b != 0
Quot(a, b) ==
    IF a.k = "nan" \/ b.k = "nan" THEN NaN
    ELSE IF a.k = "unknown" \/ b.k = "unknown" THEN Unknown
    ELSE IF a.k = "fin" /\ b.k = "fin" THEN
        IF b.n # 0 THEN
            Fin(a.n * b.d, a.d * b.n, Comb(Sgn(b.n) * a.e, (0 - Sgn(a.n)) * b.e))
        ELSE IF a.n # 0 THEN Big(Sgn(a.n) * b.e)
        ELSE IF a.e = 0 THEN Rat(0, 1)
        ELSE Rat(a.e * b.e, 1)
    ELSE IF a.k = "inf" THEN (IF b.k = "inf" THEN NaN ELSE Inf(a.n * SignOf(b)))
    ELSE IF b.k = "inf" THEN Rat(0, 1)
    ELSE IF a.k = "big" THEN (IF b.k = "big" THEN Unknown ELSE Big(a.n * SignOf(b)))
    ELSE Fin(0, 1, SignOf(a) * b.n)

(***************************************************************************)
(* <math.h>.  fabs and pow with an integer exponent are exact; the         *)
(* transcendental functions are piecewise-linear approximations that keep  *)
(* the domain, the sign and the special values of the C library.           *)
(***************************************************************************)
RECURSIVE IntPow(_, _)
\* base^k for an integer k >= 0, by repeated multiplication
IntPow(base, k) == IF k = 0 THEN Rat(1, 1) ELSE Times(base, IntPow(base, k - 1))

RECURSIVE ISqrtFrom(_, _)
ISqrtFrom(n, r) == IF (r + 1) * (r + 1) > n THEN r ELSE ISqrtFrom(n, r + 1)

\* sqrt of a positive finite value, rounded down to hundredths
SqrtApprox(v) == Rat(ISqrtFrom((v.n * 10000) \div v.d, 0), 100)

pow(l, r) ==
    IF IsZero(r) THEN Rat(1, 1)
    ELSE IF l.k = "nan" \/ r.k = "nan" THEN NaN
    ELSE IF r.k # "fin" \/ l.k = "unknown" THEN Unknown
    ELSE IF r.d = 1 THEN
        IF r.n >= 0 THEN IntPow(l, r.n)
        ELSE IF IsZero(l) THEN Inf(1)
        ELSE Quot(Rat(1, 1), IntPow(l, 0 - r.n))
    ELSE IF l.k = "fin" /\ SignOf(l) < 0 THEN NaN
    ELSE IF IsZero(l) THEN (IF r.n > 0 THEN Rat(0, 1) ELSE Inf(1))
    ELSE IF l.k = "fin" /\ l.n > 0 /\ r.d = 2 THEN
        IF r.n > 0 THEN IntPow(SqrtApprox(l), r.n)
        ELSE Quot(Rat(1, 1), IntPow(SqrtApprox(l), 0 - r.n))
    ELSE Unknown

fabs(v) ==
    IF v.k = "fin" THEN Fin(Abs(v.n), v.d, IF v.n # 0 THEN Sgn(v.n) * v.e ELSE Abs(v.e))
    ELSE IF v.k \in {"big", "inf"} THEN [v EXCEPT !.n = 1]
    ELSE v

\* e^k in thousandths for k = -7 .. 8, at index k + 8
ExpTable == <<1, 2, 7, 18, 50, 135, 368, 1000, 2718, 7389, 20086, 54598, 148413, 403429,
              1096633, 2980958>>

exp(v) ==
    IF v.k = "fin" THEN
        LET k == v.n \div v.d IN
        IF k > 6 THEN Big(1)
        ELSE IF k < 0 - 7 THEN Fin(0, 1, 1)
        ELSE LET lo == ExpTable[k + 8]
                 hi == ExpTable[k + 9]
             IN  Rat(lo * v.d + (hi - lo) * (v.n - k * v.d), 1000 * v.d)
    ELSE IF v.k = "big" THEN (IF v.n > 0 THEN Big(1) ELSE Fin(0, 1, 1))
    ELSE IF v.k = "inf" THEN (IF v.n > 0 THEN Inf(1) ELSE Rat(0, 1))
    ELSE v

RECURSIVE LogIndex(_, _)
\* the largest table index i >= k whose entry is <= v (v in thousandths n/d)
LogIndex(v, k) ==
    IF k < 15 /\ ExpTable[k + 1] * v.d <= v.n * 1000 THEN LogIndex(v, k + 1) ELSE k

\* log() of a positive value
log(v) ==
    IF v.k = "fin" THEN
        IF v.n = 0 THEN Big(0 - 1)
        ELSE IF v.n * 1000 < v.d THEN Rat(0 - 7, 1)
        ELSE LET i == LogIndex(v, 1)
                 lo == ExpTable[i]
                 hi == ExpTable[i + 1]
             IN  Plus(Rat(i - 8, 1), Rat(v.n * 1000 - lo * v.d, (hi - lo) * v.d))
    ELSE IF v.k = "big" THEN Rat(30, 1)
    ELSE v

log10(v) == Times(log(v), Rat(434, 1000))

\* sin as a triangle wave of period 6.28 on hundredths
sin(v) ==
    IF v.k = "fin" THEN
        LET h == ((v.n * 100) \div v.d) % 628 IN
        IF h <= 157 THEN Rat(h, 157)
        ELSE IF h <= 471 THEN Rat(314 - h, 157)
        ELSE Rat(h - 628, 157)
    ELSE IF v.k = "inf" THEN NaN
    ELSE IF v.k = "big" THEN Unknown
    ELSE v

cos(v) == sin(Plus(v, Rat(157, 100)))

tan(v) ==
    IF IsZero(cos(v)) THEN Big(SignOf(sin(v)))
    ELSE Quot(sin(v), cos(v))

atan(v) ==
    IF v.k = "fin" THEN Quot(Times(Rat(157, 100), v), Plus(Rat(1, 1), fabs(v)))
    ELSE IF v.k \in {"big", "inf"} THEN Rat(157 * v.n, 100)
    ELSE v

\* asin on [-1, 1], linear between 0, sin(1) = 0.8415 and 1
asin(v) ==
    IF v.k \in {"nan", "unknown"} THEN v
    ELSE IF Less(Rat(1, 1), fabs(v)) THEN NaN
    ELSE IF Less(Rat(8415, 10000), fabs(v)) THEN
        Times(Rat(SignOf(v), 1),
              Plus(Rat(1, 1), Times(Minus(fabs(v), Rat(8415, 10000)), Rat(5708, 1585))))
    ELSE Times(Rat(10000, 8415), v)

acos(v) == IF isnan(asin(v)) THEN NaN ELSE Minus(Rat(15708, 10000), asin(v))

sinh(v) == Quot(Minus(exp(v), exp(Neg(v))), Rat(2, 1))

cosh(v) == Quot(Plus(exp(v), exp(Neg(v))), Rat(2, 1))

tanh(v) ==
    IF v.k \in {"big", "inf"} THEN Rat(v.n, 1)
    ELSE IF v.k = "fin" /\ Abs(v.n) > 6 * v.d THEN Rat(Sgn(v.n), 1)
    ELSE Quot(sinh(v), cosh(v))

(***************************************************************************)
(* evaluator.c                                                             *)
(***************************************************************************)
ErrLogarithm == "logarithm of non-positive number"
ErrDivision == "Division by zero"
ErrUnknownFunction == "unknown function"
ErrUnknownBinary == "unknown binary operator"
ErrUnknownNode == "unknown node type"

EvalErrors == {ErrLogarithm, ErrDivision, ErrUnknownFunction, ErrUnknownBinary, ErrUnknownNode}

RECURSIVE P10(_)
P10(k) == IF k = 0 THEN 1 ELSE 10 * P10(k - 1)

\* the double held by node->num
NumValue(num) ==
    IF num.x >= 0 THEN Rat(num.m * P10(num.x), num.d)
    ELSE Rat(num.m, num.d * P10(0 - num.x))

\* case NODE_FUNC: the strcmp chain applied to the evaluated argument
ApplyFunction(func, arg_value) ==
    IF func = <<"s", "i", "n">> THEN sin(arg_value)
    ELSE IF func = <<"c", "o", "s">> THEN cos(arg_value)
    ELSE IF func = <<"t", "a", "n">> THEN tan(arg_value)
    ELSE IF func = <<"a", "b", "s">> THEN fabs(arg_value)
    ELSE IF func = <<"l", "n">> THEN
        IF Less(arg_value, Rat(0, 1)) \/ IsZero(arg_value)
        THEN Exited(ErrLogarithm)
        ELSE log(arg_value)
    ELSE IF func = <<"l", "o", "g">> THEN
        IF Less(arg_value, Rat(0, 1)) \/ IsZero(arg_value)
        THEN Exited(ErrLogarithm)
        ELSE log10(arg_value)
    ELSE IF func = <<"a", "s", "i", "n">> THEN asin(arg_value)
    ELSE IF func = <<"a", "c", "o", "s">> THEN acos(arg_value)
    ELSE IF func = <<"a", "t", "a", "n">> THEN atan(arg_value)
    ELSE IF func = <<"s", "i", "n", "h">> THEN sinh(arg_value)
    ELSE IF func = <<"c", "o", "s", "h">> THEN cosh(arg_value)
    ELSE IF func = <<"t", "a", "n", "h">> THEN tanh(arg_value)
    ELSE IF func = <<"e", "x", "p">> THEN exp(arg_value)
    ELSE Exited(ErrUnknownFunction)

\* the switch on node->op.op of a binary operator
ApplyOperator(op, left_value, right_value) ==
    IF op = "+" THEN Plus(left_value, right_value)
    ELSE IF op = "-" THEN Minus(left_value, right_value)
    ELSE IF op = "*" THEN Times(left_value, right_value)
    ELSE IF op = "/" THEN
        IF IsZero(right_value) THEN Exited(ErrDivision)
        ELSE Quot(left_value, right_value)
    ELSE IF op = "^" THEN pow(left_value, right_value)
    ELSE Exited(ErrUnknownBinary)

RECURSIVE evaluate(_, _)
evaluate(node, x_value) ==
    IF node.type = "NODE_NUM" THEN NumValue(node.num)
    ELSE IF node.type = "NODE_ID" THEN x_value
    ELSE IF node.type = "NODE_FUNC" THEN
        LET arg_value == evaluate(node.arg, x_value) IN
        IF Stops(arg_value) THEN arg_value
        ELSE ApplyFunction(node.func, arg_value)
    ELSE IF node.type = "NODE_OP" THEN
        IF node.left = NULL THEN
            LET right_value == evaluate(node.right, x_value) IN
            IF Stops(right_value) THEN right_value
            ELSE IF node.op = "-" THEN Neg(right_value)
            ELSE Undefined
        ELSE LET left_value == evaluate(node.left, x_value) IN
             IF Stops(left_value) THEN left_value
             ELSE LET right_value == evaluate(node.right, x_value) IN
                  IF Stops(right_value) THEN right_value
                  ELSE ApplyOperator(node.op, left_value, right_value)
    ELSE Exited(ErrUnknownNode)

(***************************************************************************)
(* limits.c                                                                *)
(***************************************************************************)
ERROR_LIMITS == 4

ErrLimits == "while parsing limits string"

DEFAULT_LIMIT_VALUE == 10

Limits(x_min, x_max, y_min, y_max) ==
    [x_min |-> x_min, x_max |-> x_max, y_min |-> y_min, y_max |-> y_max]

RECURSIVE StrtodDigits(_, _, _, _, _, _)
\* the digits of a decimal number from index j on: value m/d so far, count
\* digits read, scale says whether they follow the decimal point
StrtodDigits(t, j, m, d, count, scale) ==
    IF isdigit(CharAt(t, j))
    THEN StrtodDigits(t, j + 1, m * 10 + DigitVal(CharAt(t, j)),
                      IF scale THEN d * 10 ELSE d, count + 1, scale)
    ELSE [j |-> j, m |-> m, d |-> d, count |-> count]

RECURSIVE StrtodSpaces(_, _)
StrtodSpaces(t, j) == IF isspace(CharAt(t, j)) THEN StrtodSpaces(t, j + 1) ELSE j

\* strtod, last step: the value and endptr, from the signed mantissa mant/d,
\* the count of its digits, the index j2 after it, and the exponent digits ex
StrtodValue(i, mant, d, count, j2, xneg, ex) ==
    IF count = 0 THEN [value |-> Rat(0, 1), endptr |-> i]
    ELSE IF ex.count = 0 THEN [value |-> Rat(mant, d), endptr |-> j2]
    ELSE [value |-> NumValue([m |-> mant, d |-> d, x |-> IF xneg THEN 0 - ex.m ELSE ex.m]),
          endptr |-> ex.j]

\* strtod, the optional exponent after the mantissa digits frac
StrtodExponent(t, i, neg, intcount, frac) ==
    StrtodValue(i, IF neg THEN 0 - frac.m ELSE frac.m, frac.d, intcount + frac.count, frac.j,
                CharAt(t, frac.j + 1) = "-",
                IF CharAt(t, frac.j) \in {"e", "E"}
                THEN StrtodDigits(t, IF CharAt(t, frac.j + 1) \in {"-", "+"}
                                     THEN frac.j + 2 ELSE frac.j + 1, 0, 1, 0, FALSE)
                ELSE [j |-> frac.j, m |-> 0, d |-> 1, count |-> 0])

\* strtod, the optional fraction after the integer digits int
StrtodFraction(t, i, neg, int) ==
    StrtodExponent(t, i, neg, int.count,
                   IF CharAt(t, int.j) = "."
                   THEN StrtodDigits(t, int.j + 1, int.m, 1, 0, TRUE)
                   ELSE [int EXCEPT !.count = 0])

\* strtod, the optional sign at j0 and the integer digits
StrtodMantissa(t, i, j0) ==
    StrtodFraction(t, i, CharAt(t, j0) = "-",
                   StrtodDigits(t, IF CharAt(t, j0) \in {"-", "+"} THEN j0 + 1 ELSE j0,
                                0, 1, 0, FALSE))

\* strtod(t + i, &endptr) on decimal input: the value and the index endptr
\* points at; no conversion leaves endptr at i and yields 0
strtod(t, i) == StrtodMantissa(t, i, StrtodSpaces(t, i))

\* order checks that compare only the y bounds
CheckLimitsYOnly(l) ==
    IF Less(l.y_max, l.y_min) THEN [ret |-> 1, limits |-> l]
    ELSE [ret |-> 0, limits |-> l]

\* parse_limits, the two order checks on the filled struct
CheckLimits(l) ==
    IF Less(l.x_max, l.x_min) THEN [ret |-> 1, limits |-> l]
    ELSE IF Less(l.y_max, l.y_min) THEN [ret |-> 1, limits |-> l]
    ELSE [ret |-> 0, limits |-> l]

\* parse_limits from its fourth strtod call on; r is the result of that call
ParseYMax(limits_str, l, r) ==
    IF CharAt(limits_str, r.endptr) # NUL THEN [ret |-> 1, limits |-> [l EXCEPT !.y_max = r.value]]
    ELSE CheckLimits([l EXCEPT !.y_max = r.value])

ParseYMin(limits_str, l, r) ==
    IF CharAt(limits_str, r.endptr) # ":" THEN [ret |-> 1, limits |-> [l EXCEPT !.y_min = r.value]]
    ELSE ParseYMax(limits_str, [l EXCEPT !.y_min = r.value], strtod(limits_str, r.endptr + 1))

ParseXMax(limits_str, l, r) ==
    IF CharAt(limits_str, r.endptr) # ":" THEN [ret |-> 1, limits |-> [l EXCEPT !.x_max = r.value]]
    ELSE ParseYMin(limits_str, [l EXCEPT !.x_max = r.value], strtod(limits_str, r.endptr + 1))

ParseXMin(limits_str, l, r) ==
    IF CharAt(limits_str, r.endptr) # ":" THEN [ret |-> 1, limits |-> [l EXCEPT !.x_min = r.value]]
    ELSE ParseXMax(limits_str, [l EXCEPT !.x_min = r.value], strtod(limits_str, r.endptr + 1))

\* parse_limits(limits_str, limits): the return value and the struct as the
\* call leaves it, given the struct l it was handed
parse_limits(limits_str, l) == ParseXMin(limits_str, l, strtod(limits_str, 0))

initialize_limits ==
    Limits(Rat(0 - DEFAULT_LIMIT_VALUE, 1), Rat(DEFAULT_LIMIT_VALUE, 1),
           Rat(0 - DEFAULT_LIMIT_VALUE, 1), Rat(DEFAULT_LIMIT_VALUE, 1))

(***************************************************************************)
(* draw_utils.c                                                            *)
(*                                                                         *)
(* The loop variable x of draw_function starts at x_min and is increased   *)
(* by the double nearest to 0.01, each sum rounded to nearest-even.  With  *)
(* N the value of x in units of 2^-59, the model keeps h, the sample in    *)
(* hundredths (x is h/100 up to rounding), E = 100*N - h*2^59, the         *)
(* deviation of x from h/100 in units of 2^-59/100, and L = N mod 4096,    *)
(* the low bits that rounding depends on.  The double nearest to 0.01 is   *)
(* StepUnits * 2^-59; only its low bits and its own deviation are used.    *)
(***************************************************************************)
LowBits == 4096

\* StepUnits mod LowBits, for StepUnits = 5764607523034235
StepLow == 1147

\* 100 * StepUnits - 2^59
StepDeviation == 12

RECURSIVE Pow2(_)
Pow2(k) == IF k = 0 THEN 1 ELSE 2 * Pow2(k - 1)

RECURSIVE UlpExponent(_, _, _)
\* the exponent g of the spacing 2^g (in units of 2^-59) of the doubles around
\* the exact sum (h, E): the least g with |sum| < 2^(g+1) * 2^53 * 2^-59
UlpExponent(h, E, g) ==
    LET A == Abs(h) * 128
        T == 100 * 2 * Pow2(g)
        t == IF h > 0 THEN E ELSE 0 - E
    IN  IF h # 0 /\ (A > T \/ (A = T /\ t >= 0)) THEN UlpExponent(h, E, g + 1) ELSE g

\* x += X_EVALUATION_STEP without the rounding of the sum: x stays h/100
NextXExact(l) == [l EXCEPT !.i = l.i + 1, !.h = l.h + 1]

\* x += X_EVALUATION_STEP
NextX(l) ==
    LET h1 == l.h + 1
        Es == l.E + StepDeviation
        Ls == (l.L + StepLow) % LowBits
        sgn == IF h1 # 0 THEN Sgn(h1) ELSE Sgn(Es)
        G == Pow2(UlpExponent(h1, Es, 0))
        m == (IF sgn > 0 THEN Ls ELSE (LowBits - Ls) % LowBits) % (2 * G)
        r == m % G
        a == IF 2 * r > G \/ (2 * r = G /\ m >= G) THEN G - r ELSE 0 - r
        adj == sgn * a
    IN  [l EXCEPT !.i = l.i + 1, !.h = h1, !.E = Es + 100 * adj,
                  !.L = (Ls + adj + LowBits) % LowBits]

\* the double x of draw_function: h/100 with a deviation of the sign of E
XValue(l) == Fin(l.h, 100, Sgn(l.E))

\* the loop variable at x = limits->x_min, for x_min a multiple of 1/2
StartX(l, x_min) == [l EXCEPT !.i = 0, !.h = (100 * x_min.n) \div x_min.d, !.E = 0, !.L = 0]

\* y > limits->y_max || y < limits->y_min
OutOfRange(v, lims) == Less(lims.y_max, v) \/ Less(v, lims.y_min)

\* a loop body that leaves first_point alone when the curve leaves the window
PlotSampleKeepsPath(first_point, out_of_range, v, lims) ==
    IF isnan(v) THEN
        [first_point |-> 1, out_of_range |-> 1,
         line |-> IF first_point = 0 THEN "stroke" ELSE "none"]
    ELSE IF OutOfRange(v, lims) THEN
        [first_point |-> first_point, out_of_range |-> 1,
         line |-> IF out_of_range = 0 THEN "stroke" ELSE "none"]
    ELSE [first_point |-> 0, out_of_range |-> 0,
          line |-> IF first_point # 0 THEN "moveto" ELSE "lineto"]

\* a loop body whose undefined samples leave out_of_range as it is
PlotSampleKeepsRange(first_point, out_of_range, v, lims) ==
    IF isnan(v) THEN
        [first_point |-> 1, out_of_range |-> out_of_range,
         line |-> IF first_point = 0 THEN "stroke" ELSE "none"]
    ELSE IF OutOfRange(v, lims) THEN
        IF out_of_range = 0
        THEN [first_point |-> 1, out_of_range |-> 1, line |-> "stroke"]
        ELSE [first_point |-> first_point, out_of_range |-> out_of_range, line |-> "none"]
    ELSE [first_point |-> 0, out_of_range |-> 0,
          line |-> IF first_point # 0 THEN "moveto" ELSE "lineto"]

\* a loop body that starts a new path at every sample it plots
PlotSampleMovesOnly(first_point, out_of_range, v, lims) ==
    IF isnan(v) THEN
        [first_point |-> 1, out_of_range |-> 1,
         line |-> IF first_point = 0 THEN "stroke" ELSE "none"]
    ELSE IF OutOfRange(v, lims) THEN
        IF out_of_range = 0
        THEN [first_point |-> 1, out_of_range |-> 1, line |-> "stroke"]
        ELSE [first_point |-> first_point, out_of_range |-> out_of_range, line |-> "none"]
    ELSE [first_point |-> 0, out_of_range |-> 0, line |-> "moveto"]

\* the body of the loop of draw_function after y has been evaluated: the
\* flags it leaves and the line it prints ("none" when it prints nothing)
PlotSample(first_point, out_of_range, v, lims) ==
    IF isnan(v) THEN
        [first_point |-> 1, out_of_range |-> 1,
         line |-> IF first_point = 0 THEN "stroke" ELSE "none"]
    ELSE IF OutOfRange(v, lims) THEN
        IF out_of_range = 0
        THEN [first_point |-> 1, out_of_range |-> 1, line |-> "stroke"]
        ELSE [first_point |-> first_point, out_of_range |-> out_of_range, line |-> "none"]
    ELSE [first_point |-> 0, out_of_range |-> 0,
          line |-> IF first_point # 0 THEN "moveto" ELSE "lineto"]

\* the output file after one more line of the curve stage, for sample i
Emit(o, line, i) ==
    IF line = "none" THEN o
    ELSE [o EXCEPT !.n = o.n + 1, !.prev = o.last, !.last = line, !.at = i,
                   !.moveto = IF line = "moveto" THEN o.moveto + 1 ELSE o.moveto,
                   !.lineto = IF line = "lineto" THEN o.lineto + 1 ELSE o.lineto,
                   !.stroke = IF line = "stroke" THEN o.stroke + 1 ELSE o.stroke]

\* i <= steps and i != steps for an int i and a double steps
IntLeq(i, steps) == ~Less(steps, Rat(i, 1))
IntNeq(i, steps) == Less(steps, Rat(i, 1)) \/ Less(Rat(i, 1), steps)

RECURSIVE SupportLinesUp(_, _, _)
\* lines printed by a loop of draw_support_lines over i = 0, 1, ... <= steps;
\* label is 1 for the x axis (the moveto of the label is printed at i = 0 too)
SupportLinesUp(i, steps, label) ==
    IF ~IntLeq(i, steps) THEN 0
    ELSE (IF i > 0 /\ IntNeq(i, steps) THEN 4 ELSE 0) + 4 + label
            + (IF i > 0 THEN 2 - label ELSE 0) + SupportLinesUp(i + 1, steps, label)

RECURSIVE SupportLinesDown(_, _)
\* lines printed by a loop of draw_support_lines over -1, -2, ... >= -steps,
\* counted by i = 1, 2, ... <= steps
SupportLinesDown(i, steps) ==
    IF ~IntLeq(i, steps) THEN 0
    ELSE (IF IntNeq(i, steps) THEN 4 ELSE 0) + 4 + 2 + SupportLinesDown(i + 1, steps)

PAGE_WIDTH == 595
PAGE_HEIGHT == 842
PAGE_MARGIN == 100

\* extent / (hi - lo) for a positive extent: IEEE-754 gives +inf when hi = lo
\* and a negative quotient when hi < lo
ScaleOf(extent, lo, hi) ==
    IF IsZero(Minus(hi, lo)) THEN Inf(1) ELSE Quot(Rat(extent, 1), Minus(hi, lo))

\* the locals scale_x and scale_y of draw_graph
scale_x(lims) == ScaleOf(PAGE_WIDTH - PAGE_MARGIN, lims.x_min, lims.x_max)
scale_y(lims) == ScaleOf(PAGE_HEIGHT - PAGE_MARGIN, lims.y_min, lims.y_max)

\* an axis that is always drawn through the origin
AxisAtZero(lo, hi, scale) == Rat(0, 1)

\* the if / else if / else of draw_graph that places an axis, for the bounds
\* lo, hi of the other direction and its scale
AxisCoordinate(lo, hi, scale) ==
    IF Less(Rat(0, 1), lo) THEN Times(lo, scale)
    ELSE IF Less(hi, Rat(0, 1)) THEN Times(hi, scale)
    ELSE Rat(0, 1)

\* the locals x_cords_for_y_axis and y_cords_for_x_axis of draw_graph
x_cords_for_y_axis(lims) == AxisCoordinate(lims.x_min, lims.x_max, scale_x(lims))
y_cords_for_x_axis(lims) == AxisCoordinate(lims.y_min, lims.y_max, scale_y(lims))

(***************************************************************************)
(* Input texts of the parsing runs: every concatenation of at most MaxToks *)
(* lexemes, and every text "a op1 b op2 c" over the factors below.         *)
(***************************************************************************)
Lexemes ==
    {<<"x">>, <<"2">>, <<"+">>, <<"-">>, <<"*">>, <<"/">>, <<"^">>, <<"(">>, <<")">>,
     <<" ">>, <<"s", "i", "n">>}

RECURSIVE LexemeTexts(_)
LexemeTexts(n) ==
    IF n = 0 THEN {<<>>}
    ELSE LET shorter == LexemeTexts(n - 1) IN
         shorter \cup {s \o l : s \in shorter, l \in Lexemes}

Factors ==
    {<<"x">>, <<"2">>, <<"1", "0">>, <<".", "5">>, <<"-", "x">>, <<"(", "x", ")">>,
     <<"l", "n", "(", "x", ")">>, <<"(", "2", "-", "x", ")">>}

BinaryOps == {"+", "-", "*", "/", "^"}

ChainTexts ==
    {a \o <<op1>> \o b \o <<op2>> \o c :
        a \in Factors, b \in Factors, c \in Factors, op1 \in BinaryOps, op2 \in BinaryOps}

\* texts with a lexical error, alone and in front of a parenthesis
ErrorLexemes == {<<"$">>, <<"x", "x">>, <<"y">>, <<"2", ".", ".">>, <<"2", "e">>}

ErrorTexts ==
    ErrorLexemes
        \cup {e \o p : e \in ErrorLexemes, p \in {<<"(">>, <<")">>, <<"(", "x", ")">>}}
        \cup {<<"s", "i", "n", "(", "0">>, <<"(", "$">>, <<")", "$", "(">>}

\* x inside n pairs of parentheses
Nest(n) == [i \in 1..(2 * n + 1) |-> IF i <= n THEN "(" ELSE IF i = n + 1 THEN "x" ELSE ")"]

\* a nesting one deeper than the stack of are_brackets_balanced holds
DeepTexts == {Nest(MAX_STACK_SIZE + 1)}

\* the texts "-a op b" and "--a" over the factors
UnaryTexts ==
    {<<"-">> \o a \o <<op>> \o b : a \in Factors, b \in Factors, op \in BinaryOps}
        \cup {<<"-", "-">> \o a : a \in Factors}

\* numeric literals, with and without an exponent, well-formed and malformed,
\* alone and followed by another lexeme
NumberTexts ==
    {<<"2", "e", "5">>, <<"2", "E", "-", "1">>, <<"1", ".", "5", "e", "+", "2">>,
     <<"2", "e", "0">>, <<"2", ".", "5">>, <<"2", ".">>, <<".">>, <<"2", "e", "+">>,
     <<"2", "e", "-">>, <<"2", "E">>, <<"2", "e", "x">>, <<"2", "e", "5", ".">>,
     <<"2", "e", "5", ".", "1">>, <<"2", "e", "5", "x">>, <<"2", "e", "5", "(", "x", ")">>,
     <<"2", "e", "-", "5", "x">>, <<"2", "e", "+", "5", "(", "x", ")">>,
     <<"2", "e", "5", "+", "x">>, <<"(", "2", "e", "5", ")">>, <<"2", "e", "5", " ", "x">>,
     <<"2", "e", "(", "5", ")">>, <<"2", "e", ".", "5">>, <<"2", ".", "e", "5">>,
     <<"2", "e", "1", "*", "x">>}

\* runs of letters, alone and inside an expression
IdentifierTexts ==
    {<<"x", "x">>, <<"s", "i", "n", "x">>, <<"X">>, <<"y">>, <<"s", "i", "n">>,
     <<"s", "i", "n", "h">>, <<"a", "s", "i", "n", "h">>, <<"l">>, <<"l", "n", "x">>,
     <<"e">>, <<"e", "x", "p">>, <<"S", "i", "n", "(", "x", ")">>,
     <<"a", "b", "c", "d", "e", "f", "g", "h", "i">>,
     <<"a", "b", "c", "d", "e", "f", "g", "h", "i", "j">>,
     <<"x", "+", "x", "y">>, <<"2", "*", "s", "i", "n", "x">>, <<"x", "2">>,
     <<"x", " ", "x">>, <<"s", "i", "n", " ", "x">>}
        \cup {f \o <<"(", "x", ")">> : f \in FunctionNames}
        \cup {f \o <<"x">> : f \in FunctionNames}

NoLexer == [pos |-> 0, current_char |-> NUL]

\* a Limits struct no call has filled yet
NoLimits == Limits(Rat(0, 1), Rat(0, 1), Rat(0, 1), Rat(0, 1))

\* the locals of draw_function before its loop starts: x is kept as the
\* sample index i and the triple (h, E, L) defined with NextX below
NoLoop == [i |-> 0, h |-> 0, E |-> 0, L |-> 0, first_point |-> 1, out_of_range |-> 0]

\* the empty output file: n lines written; of the curve stage, the moveto,
\* lineto and stroke lines written, the last line and the index of the
\* sample it was written for; prev is the line written before the last;
\* y_axis and x_axis are the page coordinates draw_axes printed for the
\* vertical and the horizontal axis
NoOut == [n |-> 0, moveto |-> 0, lineto |-> 0, stroke |-> 0, last |-> "none", at |-> 0 - 1,
          prev |-> "none", showpage |-> FALSE, y_axis |-> NaN, x_axis |-> NaN]

\* value of status while the process has not ended
RUNNING == 0 - 1

InitParse ==
    /\ text \in LexemeTexts(MaxToks) \cup ChainTexts \cup ErrorTexts \cup DeepTexts
                \cup UnaryTexts \cup NumberTexts \cup IdentifierTexts
    /\ pc = "initialize_lexer"
    /\ limstr = <<>>
    /\ lexer = NoLexer
    /\ ast = NULL
    /\ last = Tok("EOF")
    /\ limits = NoLimits
    /\ loop = NoLoop
    /\ y = NaN
    /\ out = NoOut
    /\ status = RUNNING
    /\ diag = NoErr

\* error(message, lexer) / error_exit(message, exit_code): the process ends
Exit(message, exit_code) ==
    /\ pc' = "exit"
    /\ status' = exit_code
    /\ diag' = message

\* an initialize_lexer that reads the first token before it checks the
\* brackets
InitializeLexerTokenFirst ==
    /\ pc = "initialize_lexer"
    /\ IF get_next_token(text, NewLexer(text)).err # NoErr
       THEN /\ Exit(get_next_token(text, NewLexer(text)).err, ERROR_FUNCTION)
            /\ UNCHANGED <<lexer, ast, last>>
       ELSE IF ~are_brackets_balanced(text)
       THEN /\ Exit(ErrBrackets, ERROR_FUNCTION)
            /\ UNCHANGED <<lexer, ast, last>>
       ELSE /\ lexer' = NewLexer(text)
            /\ pc' = "parse_expr"
            /\ UNCHANGED <<ast, last, status, diag>>
    /\ UNCHANGED <<text, limstr, limits, loop, y, out>>

\* initialize_lexer(text)
InitializeLexer ==
    /\ pc = "initialize_lexer"
    /\ IF ~are_brackets_balanced(text)
       THEN /\ Exit(ErrBrackets, ERROR_FUNCTION)
            /\ UNCHANGED <<lexer, ast, last>>
       ELSE /\ lexer' = NewLexer(text)
            /\ pc' = "parse_expr"
            /\ UNCHANGED <<ast, last, status, diag>>
    /\ UNCHANGED <<text, limstr, limits, loop, y, out>>

\* the top-level call parse_expr(lexer) of a run that has written the header
\* of the output file before it parses
ParseExprAfterHeader ==
    /\ pc = "parse_expr"
    /\ out' = [out EXCEPT !.n = out.n + 7, !.last = "other"]
    /\ LET r == parse_expr(text, lexer) IN
       IF r.err # NoErr
       THEN /\ Exit(r.err, ERROR_FUNCTION)
            /\ lexer' = r.lx
            /\ UNCHANGED <<ast, last>>
       ELSE /\ ast' = r.node
            /\ lexer' = r.lx
            /\ last' = r.tok
            /\ pc' = "parsed"
            /\ UNCHANGED <<status, diag>>
    /\ UNCHANGED <<text, limstr, limits, loop, y>>

\* the top-level call parse_expr(lexer)
ParseExpr ==
    /\ pc = "parse_expr"
    /\ LET r == parse_expr(text, lexer) IN
       IF r.err # NoErr
       THEN /\ Exit(r.err, ERROR_FUNCTION)
            /\ lexer' = r.lx
            /\ UNCHANGED <<ast, last>>
       ELSE /\ ast' = r.node
            /\ lexer' = r.lx
            /\ last' = r.tok
            /\ pc' = "parsed"
            /\ UNCHANGED <<status, diag>>
    /\ UNCHANGED <<text, limstr, limits, loop, y, out>>

NextParse == InitializeLexer \/ ParseExpr

SpecParse == InitParse /\ [][NextParse]_vars


(***************************************************************************)
(* Claims about parsing (specification SpecParse).                         *)
(***************************************************************************)
\* the node parse_factor builds for a text that is one factor
FactorNode(f) == parse_factor(f, NewLexer(f)).node

RECURSIVE LexesCleanly(_, _)
\* every lexeme of t from the cursor on is a valid token: repeated
\* get_next_token calls reach EndOfInput without a lexical error
LexesCleanly(t, lx) ==
    LET r == get_next_token(t, lx) IN
    IF r.err # NoErr THEN FALSE
    ELSE IF r.tok.type = "EOF" THEN TRUE
    ELSE LexesCleanly(t, r.lx)

\* C1: '+' and '-' bind strictly weaker than '*', '/' and '^': whenever the
\* text "a op1 b op2 c" with op1 in {+,-} and op2 in {*,/,^} has been parsed,
\* the tree is BinaryOp(op1, a, BinaryOp(op2, b, c)).
C1_AdditiveBelowMultiplicative ==
    \A a \in Factors, b \in Factors, c \in Factors, op1 \in {"+", "-"}, op2 \in {"*", "/", "^"} :
        (pc = "parsed" /\ text = a \o <<op1>> \o b \o <<op2>> \o c)
            => ast = OpNode(op1, FactorNode(a), OpNode(op2, FactorNode(b), FactorNode(c)))

\* C2: when parsing of the top-level expression ends without an error, the
\* token that stopped it is EndOfInput: an expression followed by a further
\* token never yields a tree.
C2_TrailingInputRejected ==
    pc = "parsed" => last.type = "EOF"

\* C3: on a text with balanced parentheses whose lexemes are all valid tokens,
\* parsing ends either with a tree that consumed every token up to
\* EndOfInput or with a parse error; never with a lexical error and never
\* with a tree that left tokens unconsumed.
C3_TreeOrParseError ==
    (pc \in {"parsed", "exit"} /\ are_brackets_balanced(text)
        /\ LexesCleanly(text, NewLexer(text)))
        => \/ pc = "parsed" /\ last.type = "EOF"
           \/ pc = "exit" /\ diag \in ParseErrors


\* the factor f stands in t at the C index i
FactorAt(t, i, f) == Len(t) >= i + Len(f) /\ SubSeq(t, i + 1, i + Len(f)) = f

\* the operators that share a level: '*', '/' and '^', or '+' and '-'
SameLevel(op1, op2) ==
    \/ op1 \in {"*", "/", "^"} /\ op2 \in {"*", "/", "^"}
    \/ op1 \in {"+", "-"} /\ op2 \in {"+", "-"}

\* C15: '*', '/' and '^' form one level and a chain of operators of one
\* level associates to the left: once the text "a op1 b op2 c" with op1 and
\* op2 of the same level has gone through the parser, the result is the
\* tree BinaryOp(op2, BinaryOp(op1, a, b), c).
C15_FlatLevelAssociatesLeft ==
    pc \notin {"initialize_lexer", "parse_expr"}
        => \A a \in Factors : FactorAt(text, 0, a)
            => \A b \in Factors : FactorAt(text, Len(a) + 1, b)
                => \A c \in Factors :
                    (/\ FactorAt(text, Len(a) + Len(b) + 2, c)
                     /\ Len(text) = Len(a) + Len(b) + Len(c) + 2
                     /\ SameLevel(CharAt(text, Len(a)), CharAt(text, Len(a) + Len(b) + 1)))
                    => /\ pc = "parsed"
                       /\ ast = OpNode(CharAt(text, Len(a) + Len(b) + 1),
                                       OpNode(CharAt(text, Len(a)), FactorNode(a), FactorNode(b)),
                                       FactorNode(c))

\* '2^x^2' has been parsed as a tree whose left operand is an operator node
C15_Witness ==
    /\ text = <<"2", "^", "x", "^", "2">>
    /\ pc = "parsed"
    /\ ast.type = "NODE_OP"
    /\ ast.left.type = "NODE_OP"
    /\ ast.right.type = "NODE_NUM"


UnaryMinus(node) == OpNode("-", NULL, node)

\* C16: unary minus binds tighter than every binary operator: once the text
\* "-a op b" has gone through the parser the result is the tree
\* BinaryOp(op, UnaryMinus(a), b), the operand of the minus being the single
\* factor a, and the text "--a" gives UnaryMinus(UnaryMinus(a)).
C16_UnaryMinusBindsTightest ==
    (pc \notin {"initialize_lexer", "parse_expr"} /\ CharAt(text, 0) = "-")
        => /\ \A a \in Factors : FactorAt(text, 1, a)
                => \A b \in Factors :
                    (/\ FactorAt(text, Len(a) + 2, b)
                     /\ Len(text) = Len(a) + Len(b) + 2
                     /\ CharAt(text, Len(a) + 1) \in BinaryOps)
                    => /\ pc = "parsed"
                       /\ ast = OpNode(CharAt(text, Len(a) + 1), UnaryMinus(FactorNode(a)),
                                       FactorNode(b))
           /\ \A a \in Factors : text = <<"-", "-">> \o a
                => /\ pc = "parsed"
                   /\ ast = UnaryMinus(UnaryMinus(FactorNode(a)))

\* '-(2-x)^2' has been parsed as a power whose base is the negated parenthesis
C16_Witness ==
    /\ text = <<"-", "(", "2", "-", "x", ")", "^", "2">>
    /\ pc = "parsed"
    /\ ast.type = "NODE_OP"
    /\ ast.op = "^"
    /\ ast.left = UnaryMinus(FactorNode(<<"(", "2", "-", "x", ")">>))


(***************************************************************************)
(* Rendering runs: one call draw_graph(limits, file, ast) on the tree of a *)
(* text of RenderTexts and a window of RenderWindows.                      *)
(***************************************************************************)
Window(x_min, x_max, y_min, y_max) ==
    Limits(Rat(x_min, 1), Rat(x_max, 1), Rat(y_min, 1), Rat(y_max, 1))

RenderTexts ==
    {<<"1", "/", "x">>, <<"x", "^", "2">>, <<"l", "n", "(", "x", ")">>, <<"x">>,
     <<"l", "o", "g", "(", "x", ")">>, <<"1", "/", "(", "x", "-", "1", ")">>,
     <<"x", "^", "-", "1">>, <<"a", "b", "s", "(", "x", ")">>,
     <<"a", "s", "i", "n", "(", "x", ")">>, <<"-", "x">>, <<"2">>}

RenderWindows ==
    {Window(0 - 5, 5, 0 - 5, 5), Window(0 - 2, 2, 0 - 1, 10), Window(0, 1, 0 - 1, 1),
     Window(0 - 1, 1, 0 - 1, 1), Window(1, 3, 0, 2), Window(1, 1, 1, 1),
     Window(0 - 3, 0 - 1, 0 - 2, 0 - 1), Window(1, 2, 1, 3), Window(0, 0, 0, 0)}

InitRender ==
    /\ pc = "draw_graph"
    /\ text \in RenderTexts
    /\ LET r == parse_expr(text, NewLexer(text)) IN
       /\ ast = r.node
       /\ lexer = r.lx
       /\ last = r.tok
    /\ limits \in RenderWindows
    /\ limstr = <<>>
    /\ loop = NoLoop
    /\ y = NaN
    /\ out = NoOut
    /\ status = RUNNING
    /\ diag = NoErr

\* n more lines in the output file
Write(o, n) ==
    [o EXCEPT !.n = o.n + n,
              !.prev = IF n >= 2 THEN "other" ELSE IF n = 1 THEN o.last ELSE o.prev,
              !.last = IF n >= 1 THEN "other" ELSE o.last]

\* draw_graph up to and including its call of prepare_graph
PrepareGraph ==
    /\ pc = "draw_graph"
    /\ out' = Write(out, 7)
    /\ pc' = "draw_axes"
    /\ UNCHANGED <<text, limstr, lexer, ast, last, limits, loop, y, status, diag>>

DrawAxes ==
    /\ pc = "draw_axes"
    /\ out' = [Write(out, 16) EXCEPT !.y_axis = x_cords_for_y_axis(limits),
                                     !.x_axis = y_cords_for_x_axis(limits)]
    /\ pc' = "draw_limits"
    /\ UNCHANGED <<text, limstr, lexer, ast, last, limits, loop, y, status, diag>>

DrawLimits ==
    /\ pc = "draw_limits"
    /\ out' = Write(out, 12)
    /\ pc' = "draw_support_lines"
    /\ UNCHANGED <<text, limstr, lexer, ast, last, limits, loop, y, status, diag>>

DrawSupportLines ==
    /\ pc = "draw_support_lines"
    /\ out' = Write(out, SupportLinesUp(0, limits.x_max, 1)
                            + SupportLinesDown(1, fabs(limits.x_min))
                            + SupportLinesUp(0, limits.y_max, 0)
                            + SupportLinesDown(1, fabs(limits.y_min)))
    /\ pc' = "draw_function"
    /\ UNCHANGED <<text, limstr, lexer, ast, last, limits, loop, y, status, diag>>

\* entry of draw_function: first_point = 1, out_of_range = 0, x = x_min
DrawFunction ==
    /\ pc = "draw_function"
    /\ loop' = StartX(NoLoop, limits.x_min)
    /\ pc' = "sample"
    /\ UNCHANGED <<text, limstr, lexer, ast, last, limits, y, out, status, diag>>

\* one iteration of the loop of draw_function
DrawFunctionStep ==
    /\ pc = "sample"
    /\ ~Less(limits.x_max, XValue(loop))
    /\ LET v == evaluate(ast, XValue(loop))
           p == PlotSample(loop.first_point, loop.out_of_range, v, limits)
       IN  IF v.k = "exit"
           THEN /\ Exit(v.msg, v.n)
                /\ UNCHANGED <<loop, y, out>>
           ELSE IF v.k = "ub"
           THEN /\ pc' = "undefined"
                /\ UNCHANGED <<loop, y, out, status, diag>>
           ELSE /\ y' = v
                /\ out' = Emit(out, p.line, loop.i)
                /\ loop' = [NextX(loop) EXCEPT !.first_point = p.first_point,
                                               !.out_of_range = p.out_of_range]
                /\ UNCHANGED <<pc, status, diag>>
    /\ UNCHANGED <<text, limstr, lexer, ast, last, limits>>

\* the loop condition x <= limits->x_max fails: draw_function returns
DrawFunctionReturn ==
    /\ pc = "sample"
    /\ Less(limits.x_max, XValue(loop))
    /\ pc' = "finish"
    /\ UNCHANGED <<text, limstr, lexer, ast, last, limits, loop, y, out, status, diag>>

\* a finish that prints showpage before the stroke
FinishShowpageFirst ==
    /\ pc = "finish"
    /\ out' = [out EXCEPT !.n = out.n + 2, !.prev = "showpage", !.last = "stroke",
                          !.showpage = TRUE]
    /\ pc' = "rendered"
    /\ UNCHANGED <<text, limstr, lexer, ast, last, limits, loop, y, status, diag>>

\* finish(file): stroke, showpage
Finish ==
    /\ pc = "finish"
    /\ out' = [out EXCEPT !.n = out.n + 2, !.prev = "stroke", !.last = "showpage",
                          !.showpage = TRUE]
    /\ pc' = "rendered"
    /\ UNCHANGED <<text, limstr, lexer, ast, last, limits, loop, y, status, diag>>

NextRender ==
    \/ PrepareGraph
    \/ DrawAxes
    \/ DrawLimits
    \/ DrawSupportLines
    \/ DrawFunction
    \/ DrawFunctionStep
    \/ DrawFunctionReturn
    \/ Finish

SpecRender == InitRender /\ [][NextRender]_vars

\* every value the runs of this model compute is one the model represents
ValuesRepresented == y.k # "unknown"

(***************************************************************************)
(* Whole runs: the program started with an expression of MainTexts and a   *)
(* limits argument of LimitStrings, or none (limstr = <<>>).               *)
(***************************************************************************)
LimitNumbers == {<<"5">>, <<"1">>, <<"0">>, <<"1", "0">>}

LimitStrings ==
    {a \o <<":">> \o b \o <<":">> \o c \o <<":">> \o d :
        a \in LimitNumbers, b \in LimitNumbers, c \in LimitNumbers, d \in LimitNumbers}
        \cup {<<"5", ":", "1">>, <<"0", ":", "1", ":", "0", ":", "1", "x">>,
              <<"0", ":", "1", ":", "0", ":", "1", ":">>, <<":", ":", ":">>,
              <<"-", "1", ":", "1", ":", "-", ".", "5", ":", "1", "e", "1">>,
              <<"1", ".", "5", ":", "1", ":", "0", ":", "1">>,
              <<"0", ":", "1", ":", "1", "e", "1", ":", "-", "1">>}

MainTexts == {<<"x">>, <<"1", "/", "x">>, <<"(">>, <<"x", "+">>, <<"$">>}

InitMain ==
    /\ pc = "main"
    /\ text \in MainTexts
    /\ limstr \in LimitStrings \cup {<<>>}
    /\ lexer = NoLexer
    /\ ast = NULL
    /\ last = Tok("EOF")
    /\ limits = NoLimits
    /\ loop = NoLoop
    /\ y = NaN
    /\ out = NoOut
    /\ status = RUNNING
    /\ diag = NoErr

\* main: the limits are the defaults, or the limits argument parsed by
\* parse_limits; a non-zero return ends the run with ERROR_LIMITS
MainLimits ==
    /\ pc = "main"
    /\ IF limstr = <<>>
       THEN /\ limits' = initialize_limits
            /\ pc' = "initialize_lexer"
            /\ UNCHANGED <<status, diag>>
       ELSE /\ limits' = parse_limits(limstr, initialize_limits).limits
            /\ IF parse_limits(limstr, initialize_limits).ret # 0
               THEN Exit(ErrLimits, ERROR_LIMITS)
               ELSE /\ pc' = "initialize_lexer"
                    /\ UNCHANGED <<status, diag>>
    /\ UNCHANGED <<text, limstr, lexer, ast, last, loop, y, out>>

\* main: the output file is opened and draw_graph called on the parsed tree
MainDraw ==
    /\ pc = "parsed"
    /\ pc' = "draw_graph"
    /\ UNCHANGED <<text, limstr, lexer, ast, last, limits, loop, y, out, status, diag>>

\* main: draw_graph has returned, the file is closed and the run ends
MainReturn ==
    /\ pc = "rendered"
    /\ pc' = "exit"
    /\ status' = 0
    /\ UNCHANGED <<text, limstr, lexer, ast, last, limits, loop, y, out, diag>>

NextMain ==
    \/ MainLimits
    \/ InitializeLexer
    \/ ParseExpr
    \/ MainDraw
    \/ PrepareGraph
    \/ DrawAxes
    \/ DrawLimits
    \/ DrawSupportLines
    \/ DrawFunction
    \/ DrawFunctionStep
    \/ DrawFunctionReturn
    \/ Finish
    \/ MainReturn

SpecMain == InitMain /\ [][NextMain]_vars

(***************************************************************************)
(* Evaluation runs: one call evaluate(ast, x) on a tree of depth at most   *)
(* two and a value of x.                                                   *)
(***************************************************************************)
Num(k) == NumNode([m |-> k, d |-> 1, x |-> 0])

EvalArgs == {IdNode, Num(0), Num(1), OpNode("-", NULL, IdNode), OpNode("-", IdNode, Num(1))}

EvalTrees ==
    {FuncNode(f, a) : f \in FunctionNames, a \in EvalArgs}
        \cup {OpNode(op, l, r) : op \in BinaryOps, l \in EvalArgs, r \in EvalArgs}

\* values of x in hundredths, and the deviations they are taken with
EvalPoints == {0 - 100, 0, 50, 100, 200}
EvalDeviations == {0 - 12, 0, 12}

InitEval ==
    /\ pc = "evaluate"
    /\ ast \in EvalTrees
    /\ \E h \in EvalPoints, E \in EvalDeviations : loop = [NoLoop EXCEPT !.h = h, !.E = E]
    /\ text = <<>>
    /\ limstr = <<>>
    /\ lexer = NoLexer
    /\ last = Tok("EOF")
    /\ limits = NoLimits
    /\ y = NaN
    /\ out = NoOut
    /\ status = RUNNING
    /\ diag = NoErr

\* the call evaluate(ast, x)
Evaluate ==
    /\ pc = "evaluate"
    /\ LET r == evaluate(ast, XValue(loop)) IN
       IF r.k = "exit"
       THEN /\ Exit(r.msg, r.n)
            /\ y' = y
       ELSE /\ y' = r
            /\ pc' = IF r.k = "ub" THEN "undefined" ELSE "evaluated"
            /\ UNCHANGED <<status, diag>>
    /\ UNCHANGED <<text, limstr, lexer, ast, last, limits, loop, out>>

NextEval == Evaluate

SpecEval == InitEval /\ [][NextEval]_vars

(***************************************************************************)
(* Claims about evaluation (specification SpecEval).                       *)
(***************************************************************************)
\* the value of the argument of a call node, of the operands of an operator
ArgValue == evaluate(ast.arg, XValue(loop))
LeftValue == evaluate(ast.left, XValue(loop))
RightValue == evaluate(ast.right, XValue(loop))

IsLogCall == ast.type = "NODE_FUNC" /\ ast.func \in {<<"l", "n">>, <<"l", "o", "g">>}

IsDivision == ast.type = "NODE_OP" /\ ast.op = "/" /\ ast.left # NULL

NonPositive(v) == Less(v, Rat(0, 1)) \/ IsZero(v)

\* C4: once Call(ln, a) or Call(log, a) has been evaluated at a point where
\* a evaluates to a value <= 0, the call has returned NaN and the process
\* has not ended.
C4_LogOfNonPositiveIsNaN ==
    (pc # "evaluate" /\ IsLogCall /\ ~Stops(ArgValue) /\ NonPositive(ArgValue))
        => pc = "evaluated" /\ isnan(y) /\ status = RUNNING

\* C5: once BinaryOp(Div, l, r) has been evaluated at a point where r
\* evaluates to 0, the call has returned the IEEE-754 quotient (NaN when l is
\* 0, otherwise an infinity of the sign of l) and the process has not ended.
C5_DivisionByZeroIsIEEE ==
    (pc # "evaluate" /\ IsDivision /\ ~Stops(LeftValue) /\ ~Stops(RightValue)
        /\ IsZero(RightValue))
        => /\ pc = "evaluated"
           /\ status = RUNNING
           /\ IF IsZero(LeftValue) \/ isnan(LeftValue) THEN isnan(y)
              ELSE y = Inf(SignOf(LeftValue))


(***************************************************************************)
(* Claims about rendering (specification SpecRender).                      *)
(***************************************************************************)
\* a sample value that is plotted: defined and inside [y_min, y_max]
Plottable(v) == ~isnan(v) /\ ~Stops(v) /\ ~OutOfRange(v, limits)

IsRun(t, w) == text = t /\ limits = w

\* C6: a rendering that has started runs to completion, whatever the
\* expression and the window: no evaluation of a sample ends the process,
\* so the run is never at an exit, and once the loop over the samples is
\* left finish() follows with stroke and showpage.
C6_RenderingCompletes ==
    /\ pc # "exit"
    /\ status = RUNNING
    /\ pc = "rendered" => out.showpage

\* C7: a step of the curve stage that writes a lineto writes it for the
\* sample that immediately follows the sample of the last line written,
\* that line being a moveto or a lineto, and the values of both samples are
\* defined and inside [y_min, y_max].
C7_LinetoJoinsAdjacentPlottedSamples ==
    [][out'.lineto > out.lineto
        => /\ loop.i >= 1
           /\ out.last \in {"moveto", "lineto"}
           /\ out.at = loop.i - 1
           /\ out'.at = loop.i
           /\ Plottable(y)
           /\ Plottable(y')]_vars

\* a lineto has been written in a second path segment
C7_Witness == out.last = "lineto" /\ out.moveto = 2 /\ out.stroke >= 1

\* C8: the run of '1/x' in the window -5:5:-5:5 never ends in an exit; its
\* plotted samples left of x = 0 (index 500) belong to the first path
\* segment, those right of it to the second, the sample at index 500 is not
\* plotted, and when draw_graph has returned all 1001 samples have been
\* visited and exactly two segments (two moveto, one stroke between them)
\* have been written.
C8_ReciprocalHasTwoSegments ==
    IsRun(<<"1", "/", "x">>, Window(0 - 5, 5, 0 - 5, 5))
        => /\ pc # "exit"
           /\ out.last \in {"moveto", "lineto"}
                => /\ out.at # 500
                   /\ out.at < 500 => out.moveto = 1
                   /\ out.at > 500 => out.moveto = 2
           /\ pc = "rendered"
                => out.moveto = 2 /\ out.stroke = 1 /\ loop.i = 1001 /\ out.showpage

C8_Witness ==
    /\ IsRun(<<"1", "/", "x">>, Window(0 - 5, 5, 0 - 5, 5))
    /\ pc = "rendered"
    /\ out.moveto = 2

\* C9: when the run of 'x^2' in the window -2:2:-1:10 has returned from
\* draw_graph, the curve stage has written one moveto, for the sample
\* x = -2, a lineto for each of the 400 later samples -1.99, ..., 2.00, and
\* no stroke.
C9_SquareIsOnePath ==
    (IsRun(<<"x", "^", "2">>, Window(0 - 2, 2, 0 - 1, 10)) /\ pc = "rendered")
        => out.moveto = 1 /\ out.lineto = 400 /\ out.stroke = 0 /\ out.at = 400

(***************************************************************************)
(* Claims about whole runs (specification SpecMain).                       *)
(***************************************************************************)
\* index after the k-th number of a limits string, k = 1 .. 4
NumberEnd(str, k) ==
    IF k = 1 THEN strtod(str, 0).endptr
    ELSE IF k = 2 THEN strtod(str, strtod(str, 0).endptr + 1).endptr
    ELSE IF k = 3
    THEN strtod(str, strtod(str, strtod(str, 0).endptr + 1).endptr + 1).endptr
    ELSE strtod(str, strtod(str, strtod(str, strtod(str, 0).endptr + 1).endptr + 1).endptr
                     + 1).endptr

\* the k-th number of a limits string
NumberAt(str, k) == strtod(str, IF k = 1 THEN 0 ELSE NumberEnd(str, k - 1) + 1).value

\* str is four numbers separated by ':' whose bounds are inverted
Inverted(str) ==
    /\ \A k \in 1..3 : CharAt(str, NumberEnd(str, k)) = ":"
    /\ NumberEnd(str, 4) = Len(str)
    /\ \/ Less(NumberAt(str, 2), NumberAt(str, 1))
       \/ Less(NumberAt(str, 4), NumberAt(str, 3))

RECURSIVE FieldEnd(_, _)
\* index of the first ':' of str at or after i, or of its end
FieldEnd(str, i) == IF CharAt(str, i) \in {":", NUL} THEN i ELSE FieldEnd(str, i + 1)

\* the field of str that starts at i is a number: it is not empty and
\* strtod converts all of it
FieldIsNumber(str, i) == FieldEnd(str, i) > i /\ strtod(str, i).endptr = FieldEnd(str, i)

RECURSIVE FieldsAreNumbers(_, _, _)
\* str from i on is exactly k numbers separated by ':'
FieldsAreNumbers(str, i, k) ==
    /\ FieldIsNumber(str, i)
    /\ IF k = 1 THEN FieldEnd(str, i) = Len(str)
       ELSE /\ CharAt(str, FieldEnd(str, i)) = ":"
            /\ FieldsAreNumbers(str, FieldEnd(str, i) + 1, k - 1)

Depth(t, n) ==
    Cardinality({i \in 1..n : t[i] = "("}) - Cardinality({i \in 1..n : t[i] = ")"})

\* every ')' closes an earlier '(' that is still open, and no '(' stays open
Balanced(t) == Depth(t, Len(t)) = 0 /\ \A n \in 0..Len(t) : Depth(t, n) >= 0

\* C13: the bracket balance is checked on the whole text before any token is
\* produced: the only step a run on a text with unbalanced parentheses takes
\* is the exit of initialize_lexer with the bracket error, the lexer cursor
\* untouched, whatever other lexical error the text contains.
C13_BracketsCheckedBeforeTokens ==
    [][~Balanced(text)
        => /\ pc = "initialize_lexer"
           /\ pc' = "exit"
           /\ diag' = ErrBrackets
           /\ status' = ERROR_FUNCTION
           /\ lexer' = NoLexer
           /\ ast' = NULL]_vars

\* the run on '$(' has ended with the bracket error
C13_Witness == text = <<"$", "(">> /\ pc = "exit" /\ diag = ErrBrackets

\* C14: are_brackets_balanced(text) returns 1 exactly when the parentheses
\* of text are balanced, at every nesting depth: once initialize_lexer has
\* run, the run has ended with the bracket error if and only if the
\* parentheses of the text are not balanced.
C14_BalanceCheckIsExact ==
    pc # "initialize_lexer" => ((pc = "exit" /\ diag = ErrBrackets) <=> ~Balanced(text))

\* the cursor lx is an index into t or its length, and current_char is the
\* character there, the end sentinel at the length
ValidCursor(t, lx) == lx.pos \in 0..Len(t) /\ lx.current_char = CharAt(t, lx.pos)

\* the cursor at index p of t
CursorAt(t, p) == [pos |-> p, current_char |-> CharAt(t, p)]

\* C17: the lexer cursor is always an index into the text or its length, with
\* current_char the character there.  The cursor a run has reached is valid
\* (a push-back at cursor 0 would leave the cursor the model gives it, -1,
\* in every later state of the run); from every valid cursor of the text
\* get_next_token leaves a valid cursor, and so does the push-back from
\* every cursor that is not 0.
C17_CursorStaysInText ==
    (pc \in {"parse_expr", "parsed"} \/ (pc = "exit" /\ diag # ErrBrackets))
        => /\ ValidCursor(text, lexer)
           /\ \A p \in 0..Len(text) :
                ValidCursor(text, get_next_token(text, CursorAt(text, p)).lx)
           /\ \A p \in 1..Len(text) : ValidCursor(text, PushBack(text, CursorAt(text, p)))

\* the parser has pushed the cursor back into the lexeme 'sin'
C17_Witness ==
    /\ pc = "parsed"
    /\ last.type = "FUNC"
    /\ lexer.pos = Len(text) - 1
    /\ lexer.current_char = "n"

RECURSIVE FirstNonSpace(_, _)
\* the first index of t at or after p that holds no white space
FirstNonSpace(t, p) == IF isspace(CharAt(t, p)) THEN FirstNonSpace(t, p + 1) ELSE p

\* the characters lex are a numeric literal: digits and '.', then at most one
\* exponent marker with an optional sign and digits
IsNumberLexeme(lex) ==
    /\ Len(lex) >= 1
    /\ isdigit(lex[1]) \/ lex[1] = "."
    /\ \A i \in 1..Len(lex) :
        \/ isdigit(lex[i])
        \/ lex[i] = "." /\ \A j \in 1..i : lex[j] \notin {"e", "E"}
        \/ lex[i] \in {"e", "E"} /\ \A j \in 1..(i - 1) : lex[j] \notin {"e", "E"}
        \/ lex[i] \in {"+", "-"} /\ i > 1 /\ lex[i - 1] \in {"e", "E"}

\* the token tok is the one spelled by the lexeme lex, and the lexeme ends
\* where the character next follows it
Spells(tok, lex, next) ==
    IF tok.type = "PLUS" THEN lex = <<"+">>
    ELSE IF tok.type = "MINUS" THEN lex = <<"-">>
    ELSE IF tok.type = "MUL" THEN lex = <<"*">>
    ELSE IF tok.type = "DIV" THEN lex = <<"/">>
    ELSE IF tok.type = "POW" THEN lex = <<"^">>
    ELSE IF tok.type = "LPAREN" THEN lex = <<"(">>
    ELSE IF tok.type = "RPAREN" THEN lex = <<")">>
    ELSE IF tok.type = "ID" THEN lex = <<"x">> /\ ~isalpha(next)
    ELSE IF tok.type = "FUNC" THEN lex = tok.func /\ lex \in FunctionNames /\ ~isalpha(next)
    ELSE IF tok.type = "NUM" THEN IsNumberLexeme(lex) /\ ~isdigit(next) /\ next # "."
    ELSE FALSE

RECURSIVE TokenCalls(_, _)
\* the number of get_next_token calls from the cursor lx on that return a
\* token other than EndOfInput, up to EndOfInput or the first lexical error
TokenCalls(t, lx) ==
    IF get_next_token(t, lx).err # NoErr \/ get_next_token(t, lx).tok.type = "EOF" THEN 0
    ELSE 1 + TokenCalls(t, get_next_token(t, lx).lx)

\* the call of get_next_token at the cursor p of t moves the cursor past
\* exactly one lexeme, or stays at the end of the text with EndOfInput
AdvancesPastLexeme(t, p, r) ==
    /\ (r.err = NoErr /\ r.tok.type # "EOF")
        => /\ r.lx.pos > p
           /\ r.lx.pos > FirstNonSpace(t, p)
           /\ r.lx.pos <= Len(t)
           /\ Spells(r.tok, SubSeq(t, FirstNonSpace(t, p) + 1, r.lx.pos),
                     CharAt(t, r.lx.pos))
    /\ p = Len(t) => r.err = NoErr /\ r.tok.type = "EOF" /\ r.lx.pos = p

\* C18: from every cursor of the text a get_next_token call that returns a
\* token other than EndOfInput leaves the cursor strictly further, just
\* past the lexeme of that token; at the end of the text it returns
\* EndOfInput and does not move; and the calls from the start of the text
\* return at most length(text) tokens before EndOfInput or an error.
C18_TokensAdvanceTheCursor ==
    (pc \in {"parse_expr", "parsed"} \/ (pc = "exit" /\ diag # ErrBrackets))
        => /\ \A p \in 0..Len(text) :
                AdvancesPastLexeme(text, p, get_next_token(text, CursorAt(text, p)))
           /\ TokenCalls(text, NewLexer(text)) <= Len(text)

\* a run on a text of four lexemes, each of one character, has ended
C18_Witness ==
    /\ pc = "parsed"
    /\ Len(text) = 4
    /\ TokenCalls(text, NewLexer(text)) = 4

RECURSIVE RunEnd(_, _)
\* the index after the maximal run of letters of t that starts at p
RunEnd(t, p) == IF isalpha(CharAt(t, p)) THEN RunEnd(t, p + 1) ELSE p

\* the thirteen function names
ThirteenNames ==
    {<<"s", "i", "n">>, <<"c", "o", "s">>, <<"t", "a", "n">>, <<"a", "b", "s">>,
     <<"l", "n">>, <<"l", "o", "g">>, <<"a", "s", "i", "n">>, <<"a", "c", "o", "s">>,
     <<"a", "t", "a", "n">>, <<"s", "i", "n", "h">>, <<"c", "o", "s", "h">>,
     <<"t", "a", "n", "h">>, <<"e", "x", "p">>}

\* r is the result the claim gives for the maximal run of letters run
ClassifiesRun(run, r) ==
    IF run = <<"x">> THEN r.err = NoErr /\ r.tok.type = "ID"
    ELSE IF run \in ThirteenNames
    THEN r.err = NoErr /\ r.tok.type = "FUNC" /\ r.tok.func = run
    ELSE r.err \in {ErrIdUnknown, ErrIdLong}

\* C19: a maximal run of letters is classified exhaustively and exclusively:
\* at every cursor of the text where such a run starts, get_next_token
\* returns an Identifier token if the run is 'x', a FunctionName token
\* carrying the name if the run is one of the thirteen names, and ends in
\* the unknown-identifier or identifier-too-long error for every other run.
C19_LetterRunsClassified ==
    (pc \in {"parse_expr", "parsed"} \/ (pc = "exit" /\ diag # ErrBrackets))
        => \A p \in 0..(Len(text) - 1) :
            (isalpha(CharAt(text, p)) /\ ~isalpha(CharAt(text, p - 1)))
                => ClassifiesRun(SubSeq(text, p + 1, RunEnd(text, p)),
                                 get_next_token(text, CursorAt(text, p)))

\* the run on 'sinx' has ended with the unknown-identifier error
C19_Witness ==
    /\ text = <<"s", "i", "n", "x">>
    /\ pc = "exit"
    /\ diag = ErrIdUnknown
    /\ ast = NULL

RECURSIVE MantissaEnd(_, _)
\* the index after the digits and '.' of t from p on
MantissaEnd(t, p) ==
    IF isdigit(CharAt(t, p)) \/ CharAt(t, p) = "." THEN MantissaEnd(t, p + 1) ELSE p

RECURSIVE DigitsEnd(_, _)
\* the index after the digits of t from p on
DigitsEnd(t, p) == IF isdigit(CharAt(t, p)) THEN DigitsEnd(t, p + 1) ELSE p

\* the index where the digits of the exponent start, m being the index of
\* the exponent marker
ExponentStart(t, m) == IF CharAt(t, m + 1) \in {"+", "-"} THEN m + 2 ELSE m + 1

\* the result r of lexing the literal with exponent marker at m, whose
\* exponent digits are t[s .. d-1]: an error when there is no digit or when
\* '.', a letter or '(' follows the digits, a Number token up to d otherwise
ExponentResult(t, s, d, r) ==
    IF d = s THEN r.err = ErrExp
    ELSE IF CharAt(t, d) = "." THEN r.err = ErrExpDot
    ELSE IF isalpha(CharAt(t, d)) THEN r.err = ErrExpLetter
    ELSE IF CharAt(t, d) = "(" THEN r.err = ErrExpParen
    ELSE r.err = NoErr /\ r.tok.type = "NUM" /\ r.lx.pos = d

\* C20: at every cursor of the text where a numeric literal starts whose
\* digits are followed by an exponent marker 'e' or 'E', get_next_token
\* ends in a lexical error when the marker and its optional sign are not
\* followed by a digit, or when the exponent digits are followed by '.', a
\* letter or '('; otherwise it returns the Number token that ends after the
\* exponent digits.
C20_ExponentNeedsDigits ==
    (pc \in {"parse_expr", "parsed"} \/ (pc = "exit" /\ diag # ErrBrackets))
        => \A p \in 0..(Len(text) - 1) :
            (/\ isdigit(CharAt(text, p)) \/ CharAt(text, p) = "."
             /\ CharAt(text, MantissaEnd(text, p)) \in {"e", "E"}
             /\ Cardinality({i \in (p + 1)..MantissaEnd(text, p) : text[i] = "."}) <= 1)
                => ExponentResult(text, ExponentStart(text, MantissaEnd(text, p)),
                                  DigitsEnd(text, ExponentStart(text, MantissaEnd(text, p))),
                                  get_next_token(text, CursorAt(text, p)))

\* the run on '2e5x' has ended with the error for a letter after the exponent
C20_Witness ==
    /\ text = <<"2", "e", "5", "x">>
    /\ pc = "exit"
    /\ diag = ErrExpLetter
    /\ ast = NULL


(***************************************************************************)
(* Claims about the stages of draw_graph (specification SpecRender).       *)
(***************************************************************************)
\* the position of a stage in the body of draw_graph: pc names the call that
\* comes next, "sample" is the loop of draw_function, "rendered" the return
StageNumber(p) ==
    CASE p = "draw_graph" -> 0
      [] p = "draw_axes" -> 1
      [] p = "draw_limits" -> 2
      [] p = "draw_support_lines" -> 3
      [] p = "draw_function" -> 4
      [] p = "sample" -> 5
      [] p = "finish" -> 6
      [] p = "rendered" -> 7
      [] OTHER -> 8

\* C21: draw_graph runs its stages in the order setup, axes, boundary
\* limits, support grid, curve, finalize: every step either stays in the
\* loop of the curve stage or moves to the next stage (or ends the process),
\* so each stage is passed once and writes only in its turn; when draw_graph
\* has returned the last two lines written are stroke and showpage, and no
\* line is written once showpage has been.
C21_StagesInOrder ==
    /\ [](pc = "rendered" <=> out.showpage)
    /\ [](pc = "rendered" => out.prev = "stroke" /\ out.last = "showpage")
    /\ [][/\ pc' = pc => pc = "sample"
          /\ pc' # pc => StageNumber(pc') \in {StageNumber(pc) + 1, 8}
          /\ out' # out => StageNumber(pc) \in {0, 1, 2, 3, 5, 6}
          /\ out.showpage => out' = out]_vars

\* a render that plotted a curve has returned
C21_Witness == pc = "rendered" /\ out.showpage /\ out.lineto >= 1 /\ out.n > 37

\* the value of lo, hi nearest to 0: clamp(0, lo, hi) for lo <= hi
Clamp0(lo, hi) == IF Less(Rat(0, 1), lo) THEN lo ELSE IF Less(hi, Rat(0, 1)) THEN hi ELSE Rat(0, 1)

\* v lies in [lo, hi]
Inside(v, lo, hi) == ~Less(v, lo) /\ ~Less(hi, v)

\* the page coordinate of the logical coordinate c under scale
OnPage(c, scale) == IF IsZero(c) THEN Rat(0, 1) ELSE Times(c, scale)

ERROR_ARGS == 1
ERROR_FILE == 3

\* the exit status of the failures of each stage: error() of lexer.c and the
\* error_exit calls of parse_factor pass 2, the other stages have their
\* status in err.h
StatusOfStage ==
    [arguments |-> ERROR_ARGS, limits |-> ERROR_LIMITS, file |-> ERROR_FILE,
     lexical |-> ERROR_FUNCTION, parse |-> ERROR_FUNCTION]

\* the stage a diagnostic belongs to
StageOf(message) ==
    IF message \in LexErrors THEN "lexical"
    ELSE IF message \in ParseErrors THEN "parse"
    ELSE IF message = ErrLimits THEN "limits"
    ELSE "other"

\* C23: a run that has ended with a lexical or a parse diagnostic has the
\* exit status of its stage, and no other stage (arguments, limits, output
\* file, lexical, parse) ends a run with that status.
C23_StatusIdentifiesStage ==
    (pc = "exit" /\ StageOf(diag) \in {"lexical", "parse"})
        => /\ status = StatusOfStage[StageOf(diag)]
           /\ \A stage \in DOMAIN StatusOfStage :
                  stage # StageOf(diag) => StatusOfStage[stage] # status


(***************************************************************************)
(* Further claims about whole runs (specification SpecMain).               *)
(***************************************************************************)
\* the run was given a limits argument and parse_limits has accepted it
LimitsAccepted == limstr # <<>> /\ pc # "main" /\ diag # ErrLimits

\* C24: when parse_limits has accepted the limits argument, the limits
\* satisfy x_min < x_max and y_min < y_max, so that the denominators
\* x_max - x_min and y_max - y_min of scale_x and scale_y are not zero and
\* both scales are finite.
C24_AcceptedLimitsStrictlyOrdered ==
    LimitsAccepted
        => /\ Less(limits.x_min, limits.x_max)
           /\ Less(limits.y_min, limits.y_max)
           /\ ~IsZero(Minus(limits.x_max, limits.x_min))
           /\ ~IsZero(Minus(limits.y_max, limits.y_min))
           /\ scale_x(limits).k = "fin"
           /\ scale_y(limits).k = "fin"


(***************************************************************************)
(* Claims about the curve stage (specification SpecRender).                *)
(***************************************************************************)
\* a path is open in the output: the last line written is a moveto or a
\* lineto of the curve stage
PathOpen == out.last \in {"moveto", "lineto"}

\* the step is an iteration of the loop of draw_function
SampleStep == pc = "sample" /\ pc' = "sample" /\ loop'.i = loop.i + 1

\* the classes of a sample value
IsUndefined(v) == isnan(v)
IsOffScreen(v) == ~isnan(v) /\ OutOfRange(v, limits)
IsOnScreen(v) == ~isnan(v) /\ ~OutOfRange(v, limits)

\* C25: an iteration of the curve loop whose sample is out of range writes
\* a stroke exactly when a path is open (the sample is the first off-screen
\* one after an on-screen run): it writes none when no path is open, as for
\* an off-screen first sample or one that follows an undefined or an
\* off-screen sample, and it writes neither a moveto nor a lineto.
C25_StrokeOnlyClosesOpenPath ==
    [][(SampleStep /\ IsOffScreen(y'))
        => /\ out'.stroke > out.stroke <=> PathOpen
           /\ out'.moveto = out.moveto
           /\ out'.lineto = out.lineto]_vars

\* the sample before the current one was plotted: the last line of the file
\* is the moveto or lineto written for it
PreviousPlotted == PathOpen /\ out.at = loop.i - 1

\* C26: every iteration of the curve loop whose sample is defined and in
\* range writes exactly one line for that sample, a moveto when the sample
\* before it was not plotted (it starts a maximal run) and a lineto when it
\* was (it continues the run); an iteration whose sample is undefined or out
\* of range writes no moveto and no lineto.  The lines are written in the
\* order of the samples.
C26_SegmentsAreMaximalRuns ==
    [][SampleStep
        => /\ IsOnScreen(y')
                => /\ out'.n = out.n + 1
                   /\ out'.at = loop.i
                   /\ out'.at > out.at
                   /\ out'.last = IF PreviousPlotted THEN "lineto" ELSE "moveto"
                   /\ out'.moveto + out'.lineto = out.moveto + out.lineto + 1
           /\ ~IsOnScreen(y')
                => /\ out'.moveto = out.moveto
                   /\ out'.lineto = out.lineto
                   /\ ~(out'.last \in {"moveto", "lineto"})]_vars

\* the render of x^2 in the window -5:5:-5:5 has returned: the curve is off
\* screen at both ends and its one run of plotted samples is one segment
C26_Witness ==
    /\ IsRun(<<"x", "^", "2">>, Window(0 - 5, 5, 0 - 5, 5))
    /\ pc = "rendered"
    /\ out.moveto = 1
    /\ out.lineto = 446
    /\ out.stroke = 2

\* the flags an iteration leaves for a sample of each class
FlagsAfter(v) ==
    IF IsOnScreen(v) THEN [first_point |-> 0, out_of_range |-> 0]
    ELSE [first_point |-> 1, out_of_range |-> 1]

\* C28: the loop of draw_function is entered with first_point = 1 and
\* out_of_range = 0; at the end of every iteration out_of_range = 1 implies
\* first_point = 1, first_point = 0 holds exactly when the sample of that
\* iteration was defined and in range, and the flags an iteration leaves are
\* a function of the class of its sample.
C28_CurveFlags ==
    /\ []((pc = "sample" /\ loop.i = 0) => (loop.first_point = 1 /\ loop.out_of_range = 0))
    /\ []((pc \in {"sample", "finish", "rendered"} /\ loop.i >= 1)
            => /\ loop.out_of_range = 1 => loop.first_point = 1
               /\ loop.first_point = 0 <=> IsOnScreen(y))
    /\ [][SampleStep
            => /\ loop'.first_point = FlagsAfter(y').first_point
               /\ loop'.out_of_range = FlagsAfter(y').out_of_range]_vars

\* the curve has left the window after a run of plotted samples, and a later
\* iteration finds it still outside
C28_Witness ==
    /\ pc = "sample"
    /\ loop.out_of_range = 1
    /\ loop.first_point = 1
    /\ out.moveto >= 1
    /\ out.last = "stroke"
    /\ out.at < loop.i - 2
    /\ IsOffScreen(y)


(***************************************************************************)
(* Further claims about parsing (specification SpecParse).                 *)
(***************************************************************************)
\* C27: when the top-level parse_expr has returned, the next call of
\* get_next_token returns, without an error, the token that ended the
\* operator loop of parse_expr (same type, same value), whether that token
\* is the end of the input, a one-character token, a number or a name.
C27_PushBackRestoresLastToken ==
    pc = "parsed"
        => /\ get_next_token(text, lexer).err = NoErr
           /\ get_next_token(text, lexer).tok = last

RECURSIVE WellFormed(_)
\* the tree n can be evaluated: a call has one of the thirteen names and an
\* argument, an operator node has one of the five operators and a right
\* operand, and lacks the left operand only when it is a minus
WellFormed(n) ==
    IF n.type \in {"NODE_NUM", "NODE_ID"} THEN TRUE
    ELSE IF n.type = "NODE_FUNC" THEN
        n.func \in ThirteenNames /\ n.arg # NULL /\ WellFormed(n.arg)
    ELSE IF n.type = "NODE_OP" THEN
        /\ n.op \in {"+", "-", "*", "/", "^"}
        /\ n.right # NULL
        /\ WellFormed(n.right)
        /\ IF n.left = NULL THEN n.op = "-" ELSE WellFormed(n.left)
    ELSE FALSE

RECURSIVE ReachesDefect(_)
\* the calls evaluate(n, x) makes, followed without the values: some call is
\* made on a null node, or reaches the unknown function, unknown operator or
\* unknown node branch (a call that exits for a logarithm or a division ends
\* the traversal earlier, which reaches no more than this)
ReachesDefect(n) ==
    IF n = NULL THEN TRUE
    ELSE IF n.type \in {"NODE_NUM", "NODE_ID"} THEN FALSE
    ELSE IF n.type = "NODE_FUNC" THEN ReachesDefect(n.arg) \/ n.func \notin ThirteenNames
    ELSE IF n.type = "NODE_OP" THEN
        IF n.left = NULL /\ n.op = "-" THEN ReachesDefect(n.right)
        ELSE \/ ReachesDefect(n.left)
             \/ ReachesDefect(n.right)
             \/ n.op \notin {"+", "-", "*", "/", "^"}
    ELSE TRUE

C30_ParsingMovesForward ==
    /\ (pc # "initialize_lexer" /\ diag # ErrBrackets)
            => \/ parse_factor(text, NewLexer(text)).err # NoErr
               \/ parse_factor(text, NewLexer(text)).lx.pos > 0
    /\ pc = "parsed" => lexer.pos > 0

=============================================================================
